---- MODULE Spec2Model ----
(***************************************************************************)
(* Model of the image-asset export pipeline of kataras/figma-extractor:    *)
(* pkg/imager (ExportImages, ExportImageFills, buildFileName, ...) and the *)
(* orchestration in figmaextractor.exportImages.                           *)
(*                                                                         *)
(* Strings are sequences of one-character strings, so that the naming      *)
(* functions are computed character by character as the Go code does.      *)
(* Scales are integer-valued (1, 2, 3): %g prints them as plain digits.    *)
(***************************************************************************)
EXTENDS Integers, Sequences, FiniteSets, TLC

(***************************************************************************)
(* Program constants                                                       *)
(***************************************************************************)
maxNodesPerRequest == 100

maxParallelDownloads == 5

maxRetries == 3

(***************************************************************************)
(* Bounds of the model                                                     *)
(***************************************************************************)
\* deduplicateNodeIDs is called on lists of at most MaxIDs node IDs.
MaxIDs == 4

\* Environment faults (empty/absent URL, failed transfer, failed rename,
\* failed remote call) injected in one run.
MaxFaults == 2

\* SpecCall exports maxParallelDownloads + ExtraNodes nodes in one batch.
ExtraNodes == 1

(***************************************************************************)
(* Strings                                                                 *)
(***************************************************************************)
Upper == <<"A","B","C","D","E","F","G","H","I","J","K","L","M",
           "N","O","P","Q","R","S","T","U","V","W","X","Y","Z">>

Lower == <<"a","b","c","d","e","f","g","h","i","j","k","l","m",
           "n","o","p","q","r","s","t","u","v","w","x","y","z">>

Digits == <<"0","1","2","3","4","5","6","7","8","9">>

Min(a, b) == IF a < b THEN a ELSE b

\* strings.ToLower on one character
ToLowerChar(c) ==
  IF \E i \in DOMAIN Upper : Upper[i] = c
  THEN Lower[CHOOSE i \in DOMAIN Upper : Upper[i] = c]
  ELSE c

\* strings.ReplaceAll(s, old, new) for a one-character old
ReplaceAll(s, old, new) == [i \in DOMAIN s |-> IF s[i] = old THEN new ELSE s[i]]

\* fmt's %d of a non-negative integer
RECURSIVE FmtInt(_)
FmtInt(n) == IF n < 10 THEN <<Digits[n + 1]>>
             ELSE FmtInt(n \div 10) \o <<Digits[(n % 10) + 1]>>

Elems(s) == {s[i] : i \in DOMAIN s}

\* fmt's %g of an integer-valued float64
FmtG(scale) == FmtInt(scale)

\* index of the last occurrence of c in s, 0 if none
LastIndex(s, c) ==
  IF \E i \in DOMAIN s : s[i] = c
  THEN CHOOSE i \in DOMAIN s : s[i] = c /\ \A j \in DOMAIN s : j > i => s[j] # c
  ELSE 0

\* filepath.Ext: the suffix beginning at the final dot in the final
\* slash-separated element of path; empty if there is no dot.
Ext(path) ==
  LET dot == LastIndex(path, ".")
      slash == LastIndex(path, "/")
  IN IF dot > slash /\ dot > 0 THEN SubSeq(path, dot, Len(path)) ELSE <<>>

HasSuffix(s, suf) ==
  Len(s) >= Len(suf) /\ SubSeq(s, Len(s) - Len(suf) + 1, Len(s)) = suf

TrimSuffix(s, suf) ==
  IF HasSuffix(s, suf) THEN SubSeq(s, 1, Len(s) - Len(suf)) ELSE s

(***************************************************************************)
(* FileNamer: imager.toKebabCase, imager.buildFileName                     *)
(***************************************************************************)
IsKebabChar(c) ==
  \/ \E i \in DOMAIN Lower : Lower[i] = c
  \/ \E i \in DOMAIN Digits : Digits[i] = c
  \/ c = "-"

\* only lower-cases
toKebabCaseLowerOnly(s) == [i \in DOMAIN s |-> ToLowerChar(s[i])]

toKebabCase(s) ==
  LET lowered == [i \in DOMAIN s |-> ToLowerChar(s[i])]
      hyphened == ReplaceAll(ReplaceAll(lowered, " ", "-"), "_", "-")
  IN SelectSeq(hyphened, IsKebabChar)

\* no format is taken for a vector format
IsVectorNever(format) == FALSE

IsVector(format) == format = <<"s","v","g">> \/ format = <<"p","d","f">>

buildFileName(nodeName, nodeID, format, scale) ==
  LET name0 == IF nodeName = <<>> THEN nodeID ELSE nodeName
      name1 == toKebabCase(name0)
      name == IF name1 = <<>> THEN <<"a","s","s","e","t">> ELSE name1
      scaleSuffix == IF scale > 1 /\ ~IsVector(format)
                     THEN <<"@">> \o FmtG(scale) \o <<"x">>
                     ELSE <<>>
  IN name \o scaleSuffix \o <<".">> \o format

(***************************************************************************)
(* The collision registry (usedNames): check-then-register of one name     *)
(***************************************************************************)
Put(f, k, v) == [x \in (DOMAIN f) \cup {k} |-> IF x = k THEN v ELSE f[x]]

EmptyMap == [x \in {} |-> 0]

\* the name handed out for candidate fileName, and the registry afterwards
RegisterName(used, fileName) ==
  IF fileName \in DOMAIN used
  THEN LET count == used[fileName]
           ext == Ext(fileName)
           base == TrimSuffix(fileName, ext)
           renamed == base \o <<"-">> \o FmtInt(count + 1) \o ext
       IN [fileName |-> renamed, usedNames |-> Put(used, renamed, count + 1)]
  ELSE [fileName |-> fileName, usedNames |-> Put(used, fileName, 1)]

(***************************************************************************)
(* State                                                                   *)
(***************************************************************************)
VARIABLES
  input,            \* opts, fileResp, nodesResp, targetNodeIDs and the remote file-image table
  pc,               \* position of exportImages
  screenshotNodes,  \* nodeID -> nodeName
  unresolvedNodes,  \* sequence of ImageFillNode
  ExportedAssets,   \* specs.ExportedAssets, the manifest
  ret,              \* what exportImages returned: "running", "nil" or an error
  files,            \* the output directory: fileName -> content
  calls,            \* remote calls issued so far, in order
  phaseLog,         \* phases entered so far, in order
  idx,              \* index of exportImages' loop over the screenshot assets
  log,              \* what exportImages handed to opts.Logger
  faults,           \* environment faults injected so far
  call,             \* frame of the active imager call
  cpc,              \* position of the imager call's own goroutine
  callErr,          \* error returned by the imager call, "" if none
  result,           \* the call's ExportResult
  usedNames,        \* the call's collision registry
  pending,          \* response entries the range loop has not visited yet
  gor,              \* download goroutines spawned by the call
  sem,              \* tokens in the semaphore channel
  mu,               \* holders of the batch mutex
  wg                \* WaitGroup counter

pipeVars == <<input, pc, screenshotNodes, unresolvedNodes, ExportedAssets, ret,
              phaseLog, idx, log>>

callVars == <<call, cpc, callErr, result, usedNames, pending, gor, sem, mu, wg>>

vars == <<input, pc, screenshotNodes, unresolvedNodes, ExportedAssets, ret, files,
          calls, phaseLog, idx, log, faults, call, cpc, callErr, result, usedNames, pending,
          gor, sem, mu, wg>>

\* key of the goroutine that runs the imager call itself
MainKey == [s |-> 0, n |-> <<"m","a","i","n">>]

EmptyResult == [Assets |-> <<>>, Errors |-> <<>>, UnresolvedNodes |-> <<>>]

NoCall == [fn |-> "none", phase |-> "none", nodes |-> EmptyMap,
           Format |-> <<>>, scales |-> <<>>, si |-> 0, todo |-> {},
           scale |-> 0, cur |-> <<>>, fills |-> <<>>, fi |-> 0, images |-> EmptyMap]

\* bytes served for a URL; a transfer cut short leaves a partial file
FullBody(url) == [src |-> url, full |-> TRUE]

PartialBody(url) == [src |-> url, full |-> FALSE]

\* the render URL the remote API hands out for a node at a scale
RenderURL(nodeID, format, scale) ==
  <<"r","/">> \o nodeID \o <<"@">> \o FmtG(scale) \o <<".">> \o format

(***************************************************************************)
(* imager.ExportImages: the calling goroutine                              *)
(***************************************************************************)
\* the requested scales are used for every format
EffectiveScalesAsRequested(format, scales) == scales

\* lines 82-86: SVG and PDF are always rendered at scale 1
EffectiveScales(format, scales) == IF IsVector(format) THEN <<1>> ELSE scales

\* lines 68-86: the frame on entry; MkdirAll succeeded
ExportImagesFrame(phase, nodes, format, scales) ==
  [NoCall EXCEPT !.fn = "ExportImages", !.phase = phase, !.nodes = nodes,
                 !.Format = format, !.scales = EffectiveScales(format, scales),
                 !.si = 1, !.todo = DOMAIN nodes]

\* lines 88-90: position of the two loops: is there another batch to request?
HasBatch(c) == c.si <= Len(c.scales) /\ c.todo # {}

\* the frame and position after the loops' bookkeeping: an exhausted scale moves
\* to the next one, which starts again from the whole node set
LoopPos(c) ==
  IF c.si > Len(c.scales) THEN c
  ELSE IF c.todo # {} THEN c
  ELSE IF DOMAIN c.nodes = {} THEN [c EXCEPT !.si = Len(c.scales) + 1]
  ELSE IF c.si = Len(c.scales) THEN [c EXCEPT !.si = c.si + 1]
  ELSE [c EXCEPT !.si = c.si + 1, !.todo = DOMAIN c.nodes]

\* lines 68-86: enter ExportImages; os.MkdirAll may fail
EnterExportImages(phase, nodes, format, scales, f0) ==
  /\ result' = EmptyResult
  /\ usedNames' = EmptyMap
  /\ pending' = EmptyMap
  /\ gor' = [k \in {} |-> 0]
  /\ sem' = 0
  /\ mu' = {}
  /\ wg' = 0
  /\ \/ /\ call' = ExportImagesFrame(phase, nodes, format, scales)
        /\ cpc' = IF HasBatch(call') THEN "batch" ELSE "ret"
        /\ callErr' = ""
        /\ faults' = f0
     \/ /\ f0 < MaxFaults
        /\ faults' = f0 + 1
        /\ call' = [NoCall EXCEPT !.fn = "ExportImages", !.phase = phase,
                                  !.nodes = nodes, !.Format = format]
        /\ cpc' = "ret"
        /\ callErr' = "mkdir"

\* lines 90-95: the IDs of the next batch. nodeIDs is filled by ranging over a
\* map, so any maxNodesPerRequest of the IDs not yet requested may come next.
Batches(todo) ==
  {b \in SUBSET todo : Cardinality(b) = Min(maxNodesPerRequest, Cardinality(todo))}

\* what a successful GetImages may answer for a batch: per requested ID a URL,
\* an empty string, or no entry at all
Responses(batch, format, scale, budget) ==
  LET kinds == [batch -> {"url", "empty", "absent"}]
      ok(f) == Cardinality({id \in batch : f[id] # "url"}) <= budget
  IN {[id \in {x \in batch : f[x] # "absent"} |->
         IF f[id] = "url" THEN RenderURL(id, format, scale) ELSE <<>>]
      : f \in {g \in kinds : ok(g)}}

RespFaults(batch, resp) ==
  Cardinality(batch \ DOMAIN resp) + Cardinality({id \in DOMAIN resp : resp[id] = <<>>})

\* a remote call as it is remembered: what was asked and what came back
RemoteCall(api, phase, ids, format, scale, ok, resp) ==
  [api |-> api, phase |-> phase, ids |-> ids, format |-> format, scale |-> scale,
   ok |-> ok, resp |-> resp]

\* variant: a failed GetImages call returns what the earlier batches produced
GetImagesCallKeepsResult ==
  /\ cpc = "batch"
  /\ call.fn = "ExportImages"
  /\ \E batch \in Batches(call.todo) :
       LET scale == call.scales[call.si]
           c1 == [call EXCEPT !.todo = call.todo \ batch, !.scale = scale]
       IN /\ \/ \E resp \in Responses(batch, call.Format, scale, MaxFaults - faults) :
                  /\ calls' = Append(calls, RemoteCall("GetImages", call.phase, batch,
                                                       call.Format, scale, TRUE, resp))
                  /\ pending' = resp
                  /\ faults' = faults + RespFaults(batch, resp)
                  /\ call' = c1
                  /\ cpc' = "range"
                  /\ UNCHANGED <<callErr, result>>
             \/ /\ faults < MaxFaults
                /\ calls' = Append(calls, RemoteCall("GetImages", call.phase, batch,
                                                     call.Format, scale, FALSE, EmptyMap))
                /\ faults' = faults + 1
                /\ call' = c1
                /\ cpc' = "ret"
                /\ callErr' = "get_images"
                /\ UNCHANGED <<pending, result>>
  /\ UNCHANGED <<pipeVars, files, usedNames, gor, sem, mu, wg>>

\* lines 95-105: one GetImages call for the next batch
GetImagesCall ==
  /\ cpc = "batch"
  /\ call.fn = "ExportImages"
  /\ \E batch \in Batches(call.todo) :
       LET scale == call.scales[call.si]
           c1 == [call EXCEPT !.todo = call.todo \ batch, !.scale = scale]
       IN /\ \/ \E resp \in Responses(batch, call.Format, scale, MaxFaults - faults) :
                  /\ calls' = Append(calls, RemoteCall("GetImages", call.phase, batch,
                                                       call.Format, scale, TRUE, resp))
                  /\ pending' = resp
                  /\ faults' = faults + RespFaults(batch, resp)
                  /\ call' = c1
                  /\ cpc' = "range"
                  /\ UNCHANGED <<callErr, result>>
             \/ /\ faults < MaxFaults
                /\ calls' = Append(calls, RemoteCall("GetImages", call.phase, batch,
                                                     call.Format, scale, FALSE, EmptyMap))
                /\ faults' = faults + 1
                /\ call' = c1
                /\ cpc' = "ret"
                /\ callErr' = "get_images"
                /\ result' = EmptyResult
                /\ UNCHANGED pending
  /\ UNCHANGED <<pipeVars, files, usedNames, gor, sem, mu, wg>>

\* the mutex holder is unlocked too early: Lock() never blocks
MuFreeAlways(m) == TRUE

\* mu.Lock() (lines 109, 125, 138, 144) blocks while the mutex is held
MuFree(m) == m = {}

GorKey(c, nodeID) == [s |-> c.si, n |-> nodeID]

\* lines 107-116 and 153: the range loop visits one entry with a URL and spawns
\* its download goroutine
RangeSpawn ==
  /\ cpc = "range"
  /\ \E id \in DOMAIN pending :
       /\ pending[id] # <<>>
       /\ wg' = wg + 1
       /\ gor' = Put(gor, GorKey(call, id),
                     [pc |-> "sem", nID |-> id, url |-> pending[id],
                      nodeName |-> <<>>, fileName |-> <<>>, seen |-> 0,
                      scale |-> call.scale, dl |-> "none"])
       /\ pending' = [x \in (DOMAIN pending) \ {id} |-> pending[x]]
  /\ UNCHANGED <<pipeVars, files, calls, faults, call, cpc, callErr, result,
                 usedNames, sem, mu>>

\* lines 108-109: the range loop visits an entry with an empty URL: mu.Lock()
RangeLock ==
  /\ cpc = "range"
  /\ MuFree(mu)
  /\ \E id \in DOMAIN pending :
       /\ pending[id] = <<>>
       /\ call' = [call EXCEPT !.cur = id]
       /\ pending' = [x \in (DOMAIN pending) \ {id} |-> pending[x]]
  /\ mu' = {MainKey}
  /\ cpc' = "range_cs"
  /\ UNCHANGED <<pipeVars, files, calls, faults, callErr, result, usedNames, gor,
                 sem, wg>>

NoURLError(nodeID) == [kind |-> "no_url", node |-> nodeID, cause |-> "none"]

\* lines 110-112: record the missing URL, mu.Unlock(), continue
RangeRecord ==
  /\ cpc = "range_cs"
  /\ result' = [result EXCEPT !.Errors = Append(@, NoURLError(call.cur))]
  /\ mu' = mu \ {MainKey}
  /\ cpc' = "range"
  /\ UNCHANGED <<pipeVars, files, calls, faults, call, callErr, usedNames, pending,
                 gor, sem, wg>>

\* wg.Wait() is missing: the call goes on while downloads run
WaitDoneAlways(counter) == TRUE

\* lines 156 and 314: wg.Wait() returns when the counter is zero
WaitDone(counter) == counter = 0

\* line 156 and the loop heads of lines 88-90: wg.Wait(), then the next batch,
\* the next scale, or return result
WaitBatch ==
  /\ cpc = "range"
  /\ call.fn = "ExportImages"
  /\ DOMAIN pending = {}
  /\ WaitDone(wg)
  /\ call' = LoopPos(call)
  /\ cpc' = IF HasBatch(call') THEN "batch" ELSE "ret"
  /\ UNCHANGED <<pipeVars, files, calls, faults, callErr, result, usedNames,
                 pending, gor, sem, mu, wg>>

(***************************************************************************)
(* imager.ExportImages: the download goroutines (lines 116-153)            *)
(***************************************************************************)
SetGor(k, r) == [gor EXCEPT ![k] = r]

\* the deferred receive is missing: a token is never given back
ReleaseMissing(n) == n

\* lines 119 and 293: defer func() { <-sem }() gives the token back
Release(n) == n - 1

\* the channel takes one token more than its capacity
SemFreeOffByOne(n) == n <= maxParallelDownloads

\* line 118: sem <- struct{}{} blocks while the channel is full
SemFree(n) == n < maxParallelDownloads

\* lines 118-122: acquire the semaphore, compute the candidate file name
ImgAcquire(k) ==
  /\ gor[k].pc = "sem"
  /\ SemFree(sem)
  /\ sem' = sem + 1
  /\ gor' = SetGor(k, [gor[k] EXCEPT
               !.pc = "lockName",
               !.nodeName = call.nodes[gor[k].nID],
               !.fileName = buildFileName(call.nodes[gor[k].nID], gor[k].nID,
                                          call.Format, gor[k].scale)])
  /\ UNCHANGED <<pipeVars, files, calls, faults, call, cpc, callErr, result,
                 usedNames, pending, mu, wg>>

\* line 125: mu.Lock() before the registry
ImgLockName(k) ==
  /\ gor[k].pc = "lockName"
  /\ MuFree(mu)
  /\ mu' = {k}
  /\ gor' = SetGor(k, [gor[k] EXCEPT !.pc = "check"])
  /\ UNCHANGED <<pipeVars, files, calls, faults, call, cpc, callErr, result,
                 usedNames, pending, sem, wg>>

\* line 126: read the registry: the count of the candidate name, 0 if unused
ImgCheckName(k) ==
  /\ gor[k].pc = "check"
  /\ gor' = SetGor(k, [gor[k] EXCEPT
               !.pc = "register",
               !.seen = IF gor[k].fileName \in DOMAIN usedNames
                        THEN usedNames[gor[k].fileName] ELSE 0])
  /\ UNCHANGED <<pipeVars, files, calls, faults, call, cpc, callErr, result,
                 usedNames, pending, sem, mu, wg>>

\* lines 127-134: write the registry with the count that was read, mu.Unlock()
ImgRegisterName(k) ==
  /\ gor[k].pc = "register"
  /\ LET seenMap == IF gor[k].seen = 0 THEN EmptyMap
                    ELSE [x \in {gor[k].fileName} |-> gor[k].seen]
         r == RegisterName(seenMap, gor[k].fileName)
     IN /\ usedNames' = Put(usedNames, r.fileName, r.usedNames[r.fileName])
        /\ gor' = SetGor(k, [gor[k] EXCEPT !.pc = "dl", !.fileName = r.fileName])
  /\ mu' = mu \ {k}
  /\ UNCHANGED <<pipeVars, files, calls, faults, call, cpc, callErr, result,
                 pending, sem, wg>>

\* imager.downloadFile (lines 164-186): "ok" writes the whole body; "http" fails
\* before the file is created (transport error, status other than 200); "copy"
\* fails after os.Create, leaving a truncated file
DownloadOutcomes(flaky, budget) ==
  IF flaky /\ budget > 0 THEN {"ok", "http", "copy"} ELSE {"ok"}

downloadFile(fs, url, destPath, outcome) ==
  IF outcome = "ok" THEN Put(fs, destPath, FullBody(url))
  ELSE IF outcome = "copy" THEN Put(fs, destPath, PartialBody(url))
  ELSE fs

\* the return of line 141 is missing: a failed transfer goes on to the append
AfterDownloadNoReturn(outcome) == "lockAsset"

\* lines 137-144 (and 295-302): a failed transfer takes the error path and
\* returns, a successful one goes on to append the asset
AfterDownload(outcome) == IF outcome = "ok" THEN "lockAsset" ELSE "lockErr"

\* lines 136-137: the transfer
ImgDownload(k) ==
  /\ gor[k].pc = "dl"
  /\ \E outcome \in DownloadOutcomes(input.flaky, MaxFaults - faults) :
       /\ files' = downloadFile(files, gor[k].url, gor[k].fileName, outcome)
       /\ faults' = IF outcome = "ok" THEN faults ELSE faults + 1
       /\ gor' = SetGor(k, [gor[k] EXCEPT
                    !.dl = outcome,
                    !.pc = AfterDownload(outcome)])
  /\ UNCHANGED <<pipeVars, calls, call, cpc, callErr, result, usedNames, pending,
                 sem, mu, wg>>

\* line 138: mu.Lock() on the failure path
ImgLockErr(k) ==
  /\ gor[k].pc = "lockErr"
  /\ MuFree(mu)
  /\ mu' = {k}
  /\ gor' = SetGor(k, [gor[k] EXCEPT !.pc = "err"])
  /\ UNCHANGED <<pipeVars, files, calls, faults, call, cpc, callErr, result,
                 usedNames, pending, sem, wg>>

DownloadError(nodeName, outcome) ==
  [kind |-> "download", node |-> nodeName, cause |-> outcome]

\* lines 139-141, then the deferred calls of lines 119 and 117: append the
\* error record, mu.Unlock(), return; <-sem; wg.Done(). None of the last three
\* can block, so the goroutine runs them in one step.
ImgAppendErr(k) ==
  /\ gor[k].pc = "err"
  /\ result' = [result EXCEPT
                  !.Errors = Append(@, DownloadError(gor[k].nodeName, gor[k].dl))]
  /\ mu' = mu \ {k}
  /\ sem' = Release(sem)
  /\ wg' = wg - 1
  /\ gor' = SetGor(k, [gor[k] EXCEPT !.pc = "done"])
  /\ UNCHANGED <<pipeVars, files, calls, faults, call, cpc, callErr, usedNames,
                 pending>>

\* line 144: mu.Lock() on the success path
ImgLockAsset(k) ==
  /\ gor[k].pc = "lockAsset"
  /\ MuFree(mu)
  /\ mu' = {k}
  /\ gor' = SetGor(k, [gor[k] EXCEPT !.pc = "asset"])
  /\ UNCHANGED <<pipeVars, files, calls, faults, call, cpc, callErr, result,
                 usedNames, pending, sem, wg>>

ExportedAsset(nodeID, nodeName, fileName, format, scale) ==
  [NodeID |-> nodeID, NodeName |-> nodeName, FileName |-> fileName,
   Format |-> format, Scale |-> scale]

\* lines 145-152, then the deferred calls of lines 119 and 117: append the
\* asset, mu.Unlock(); <-sem; wg.Done()
ImgAppendAsset(k) ==
  /\ gor[k].pc = "asset"
  /\ result' = [result EXCEPT
                  !.Assets = Append(@, ExportedAsset(gor[k].nID, gor[k].nodeName,
                                       gor[k].fileName, call.Format, gor[k].scale))]
  /\ mu' = mu \ {k}
  /\ sem' = Release(sem)
  /\ wg' = wg - 1
  /\ gor' = SetGor(k, [gor[k] EXCEPT !.pc = "done"])
  /\ UNCHANGED <<pipeVars, files, calls, faults, call, cpc, callErr, usedNames,
                 pending>>

\* the steps of a goroutine whose transfer succeeds
ImgGoroutineOk ==
  /\ call.fn = "ExportImages"
  /\ \E k \in DOMAIN gor :
       \/ ImgAcquire(k)
       \/ ImgLockName(k)
       \/ ImgCheckName(k)
       \/ ImgRegisterName(k)
       \/ ImgDownload(k)
       \/ ImgLockAsset(k)
       \/ ImgAppendAsset(k)

\* the steps after a failed transfer
ImgGoroutineErr ==
  /\ call.fn = "ExportImages"
  /\ \E k \in DOMAIN gor :
       \/ ImgLockErr(k)
       \/ ImgAppendErr(k)

ExportImagesMain ==
  \/ GetImagesCall
  \/ RangeSpawn
  \/ RangeLock
  \/ RangeRecord
  \/ WaitBatch

(***************************************************************************)
(* The design tree (figma.Node) and NodeSelector                           *)
(***************************************************************************)
Node(id, name, exportSettings, fills, children) ==
  [ID |-> id, Name |-> name, ExportSettings |-> exportSettings,
   Fills |-> fills, Children |-> children]

Paint(type, imageRef) == [Type |-> type, ImageRef |-> imageRef]

\* the maps of all a[i], a later one overriding an earlier one
MergeMaps(ms) ==
  [x \in UNION {DOMAIN ms[i] : i \in DOMAIN ms} |->
     LET holders == {i \in DOMAIN ms : x \in DOMAIN ms[i]}
         last == CHOOSE i \in holders : \A j \in holders : j <= i
     IN ms[last][x]]

RECURSIVE Concat(_)
Concat(ss) == IF ss = <<>> THEN <<>> ELSE ss[1] \o Concat(Tail(ss))

\* the walk stops at the root
CollectExportableNodesRootOnly(node) ==
  IF node.ExportSettings > 0 THEN [x \in {node.ID} |-> node.Name]
  ELSE [x \in {} |-> node.Name]

\* imager.CollectExportableNodes / collectExportable: nodeID -> nodeName of the
\* nodes that carry at least one export setting
RECURSIVE CollectExportableNodes(_)
CollectExportableNodes(node) ==
  LET own == IF node.ExportSettings > 0
             THEN [x \in {node.ID} |-> node.Name] ELSE EmptyMap
  IN MergeMaps(<<own>> \o [i \in DOMAIN node.Children |->
                             CollectExportableNodes(node.Children[i])])

ImageFillNode(nodeID, nodeName, imageRef) ==
  [NodeID |-> nodeID, NodeName |-> nodeName, ImageRef |-> imageRef]

\* an IMAGE fill counts whatever its ref is
IsImageFillAnyRef(fill) == fill.Type = "IMAGE"

IsImageFill(fill) == fill.Type = "IMAGE" /\ fill.ImageRef # <<>>

\* imager.CollectImageFillNodes / collectImageFills: one entry per node with an
\* IMAGE fill whose ref is not empty (the first such fill), in pre-order
RECURSIVE CollectImageFillNodes(_)
CollectImageFillNodes(node) ==
  LET hits == SelectSeq(node.Fills, IsImageFill)
      own == IF hits = <<>> THEN <<>>
             ELSE <<ImageFillNode(node.ID, node.Name, hits[1].ImageRef)>>
  IN own \o Concat([i \in DOMAIN node.Children |->
                      CollectImageFillNodes(node.Children[i])])

\* the conversion loses every node
ImageFillNodesToMapEmpty(nodes) == EmptyMap

\* imager.ImageFillNodesToMap
RECURSIVE ImageFillNodesToMap(_)
ImageFillNodesToMap(nodes) ==
  IF nodes = <<>> THEN EmptyMap
  ELSE LET n == nodes[Len(nodes)]
       IN Put(ImageFillNodesToMap(SubSeq(nodes, 1, Len(nodes) - 1)),
              n.NodeID, n.NodeName)

(***************************************************************************)
(* Inputs of a run                                                         *)
(***************************************************************************)
png == <<"p","n","g">>

svg == <<"s","v","g">>

NoFills == <<>>

Leaf(id, name, exportSettings, fills) == Node(id, name, exportSettings, fills, <<>>)

ImageFill(ref) == <<Paint("IMAGE", ref)>>

\* flaky: whether the image store may fail a transfer in this run
Run(format, scales, document, targets, nodes, images, flaky) ==
  [opts |-> [ImageFormat |-> format, ImageScales |-> scales, Logger |-> TRUE],
   fileResp |-> [Document |-> document],
   targetNodeIDs |-> targets,
   nodesResp |-> [Nodes |-> nodes],
   fileImages |-> images,
   flaky |-> flaky]

WholeFile(format, scales, document, images) ==
  Run(format, scales, document, <<>>, EmptyMap, images, TRUE)

\* Document "Doc" > "Page" > three export-flagged icons whose names normalize
\* to the same base name
SameNames ==
  WholeFile(png, <<1>>,
    Node(<<"0",":","0">>, <<"D","o","c">>, 0, NoFills, <<
      Node(<<"0",":","1">>, <<"P","a","g","e">>, 0, NoFills, <<
        Leaf(<<"1",":","1">>, <<"I","c","o","n">>, 1, NoFills),
        Leaf(<<"1",":","2">>, <<"i","c","o","n">>, 1, NoFills),
        Leaf(<<"1",":","3">>, <<"I","C","O","N">>, 1, NoFills)>>)>>),
    EmptyMap)

\* a wide page: maxParallelDownloads + ExtraNodes export-flagged nodes
WideDocument ==
  Node(<<"0",":","0">>, <<"D","o","c">>, 0, NoFills, <<
    Node(<<"0",":","1">>, <<"P","a","g","e">>, 0, NoFills,
      [i \in 1..(maxParallelDownloads + ExtraNodes) |->
         Leaf(<<"2",":">> \o FmtInt(i), <<"n">> \o FmtInt(i), 1, NoFills)])>>)

Wide == Run(png, <<1>>, WideDocument, <<>>, EmptyMap, EmptyMap, FALSE)

\* a wide page of nodes that all show the same embedded image
WideFillsDocument ==
  Node(<<"0",":","0">>, <<"D","o","c">>, 0, NoFills, <<
    Node(<<"0",":","1">>, <<"P","a","g","e">>, 0, NoFills,
      [i \in 1..(maxParallelDownloads + ExtraNodes) |->
         Leaf(<<"3",":">> \o FmtInt(i), <<"f">> \o FmtInt(i), 0,
              ImageFill(<<"r","1">>))])>>)

WideFills ==
  Run(png, <<1>>, WideFillsDocument, <<>>, EmptyMap,
      [r \in {<<"r","1">>} |-> <<"/","a">>], FALSE)

\* the download URLs of the file's embedded images: one without an extension,
\* one with a query string, one plain
FileImages ==
  [r \in {<<"r","1">>, <<"r","2">>, <<"r","3">>} |->
     IF r = <<"r","1">> THEN <<"/","a">>
     ELSE IF r = <<"r","2">> THEN <<"/","b",".","j","p","g","?","t">>
     ELSE <<"/","c",".","p","n","g">>]

\* Document "Doc" > "Page" > three nodes with an embedded image
ThreeFills ==
  WholeFile(png, <<1>>,
    Node(<<"0",":","0">>, <<"D","o","c">>, 0, NoFills, <<
      Node(<<"0",":","1">>, <<"P","a","g","e">>, 0, NoFills, <<
        Leaf(<<"1",":","1">>, <<"P","h","o","t","o">>, 0, ImageFill(<<"r","1">>)),
        Leaf(<<"1",":","2">>, <<"H","e","r","o">>, 0, ImageFill(<<"r","2">>)),
        Leaf(<<"1",":","3">>, <<"L","o","g","o">>, 0, ImageFill(<<"r","3">>))>>)>>),
    FileImages)

\* Document "Doc" > export-flagged "Header" > a node also named "Header" that
\* has an embedded image; two scales
Headers ==
  WholeFile(png, <<1, 2>>,
    Node(<<"0",":","0">>, <<"D","o","c">>, 0, NoFills, <<
      Node(<<"0",":","1">>, <<"H","e","a","d","e","r">>, 1, NoFills, <<
        Leaf(<<"1",":","1">>, <<"H","e","a","d","e","r">>, 0,
             ImageFill(<<"r","3">>))>>)>>),
    FileImages)

\* Document "Doc" > "Page" > two export-flagged nodes, requested as SVG at
\* three scales
Vectors ==
  WholeFile(svg, <<1, 2, 3>>,
    Node(<<"0",":","0">>, <<"D","o","c">>, 0, NoFills, <<
      Node(<<"0",":","1">>, <<"P","a","g","e">>, 0, NoFills, <<
        Leaf(<<"1",":","1">>, <<"L","o","g","o">>, 1, NoFills),
        Leaf(<<"1",":","2">>, <<"M","a","r","k">>, 1, NoFills)>>)>>),
    EmptyMap)

\* node mode with two targets, "Card" and the "Body" inside it; below "Body",
\* under "Wrap", an export-flagged "Icon" and a "Photo" with an embedded image.
\* The nodes endpoint answers each target with its whole subtree
Nested ==
  LET Wrap == Node(<<"1",":","3">>, <<"W","r","a","p">>, 0, NoFills, <<
                Leaf(<<"1",":","4">>, <<"I","c","o","n">>, 1, NoFills),
                Leaf(<<"1",":","5">>, <<"P","h","o","t","o">>, 0,
                     ImageFill(<<"r","3">>))>>)
      Body == Node(<<"1",":","2">>, <<"B","o","d","y">>, 0, NoFills, <<Wrap>>)
      Card == Node(<<"1",":","1">>, <<"C","a","r","d">>, 0, NoFills, <<Body>>)
  IN Run(png, <<1>>, Leaf(<<"0",":","0">>, <<"D","o","c">>, 0, NoFills),
         <<Card.ID, Body.ID>>,
         [id \in {Card.ID, Body.ID} |->
            [Document |-> IF id = Card.ID THEN Card ELSE Body]],
         FileImages, TRUE)

\* Document "Doc" > "Cover" with an embedded image > "Inner" with another one:
\* "Cover" is a top-level node, so it is in the screenshot set
Cover ==
  WholeFile(png, <<1>>,
    Node(<<"0",":","0">>, <<"D","o","c">>, 0, NoFills, <<
      Node(<<"0",":","1">>, <<"C","o","v","e","r">>, 0, ImageFill(<<"r","1">>), <<
        Leaf(<<"1",":","1">>, <<"I","n","n","e","r">>, 0,
             ImageFill(<<"r","2">>))>>)>>),
    FileImages)

Scenarios == {SameNames, ThreeFills, Headers, Vectors, Nested, Cover}

(***************************************************************************)
(* figmaextractor.exportImages                                             *)
(***************************************************************************)
\* lines 283-299: the screenshot set: the targets (or the document root) and
\* their immediate children
ChildrenMap(node) ==
  MergeMaps([i \in DOMAIN node.Children |->
               [x \in {node.Children[i].ID} |-> node.Children[i].Name]])

ScreenshotNodes(in) ==
  IF Len(in.targetNodeIDs) > 0
  THEN MergeMaps(Concat([i \in DOMAIN in.targetNodeIDs |->
         LET id == in.targetNodeIDs[i]
         IN IF id \in DOMAIN in.nodesResp.Nodes
            THEN <<[x \in {id} |-> in.nodesResp.Nodes[id].Document.Name],
                   ChildrenMap(in.nodesResp.Nodes[id].Document)>>
            ELSE <<>>]))
  ELSE MergeMaps(<<[x \in {in.fileResp.Document.ID} |-> in.fileResp.Document.Name],
                   ChildrenMap(in.fileResp.Document)>>)

Without(m, ids) == [x \in (DOMAIN m) \ ids |-> m[x]]

\* lines 337-366: the export-flagged nodes handed to Phase 1
ExportNodes(in, shots) ==
  IF Len(in.targetNodeIDs) > 0
  THEN MergeMaps([i \in DOMAIN in.targetNodeIDs |->
         LET id == in.targetNodeIDs[i]
         IN IF id \in DOMAIN in.nodesResp.Nodes
            THEN Without(CollectExportableNodes(in.nodesResp.Nodes[id].Document),
                         DOMAIN shots)
            ELSE EmptyMap])
  ELSE Without(CollectExportableNodes(in.fileResp.Document),
               {in.fileResp.Document.ID})

InitCall ==
  /\ call = NoCall
  /\ cpc = "idle"
  /\ callErr = ""
  /\ result = EmptyResult
  /\ usedNames = EmptyMap
  /\ pending = EmptyMap
  /\ gor = [k \in {} |-> 0]
  /\ sem = 0
  /\ mu = {}
  /\ wg = 0

\* lines 368-370: Phase 1 renders the export-flagged nodes, if there are any
Phase1Start ==
  /\ pc = "phase1"
  /\ LET exportNodes == ExportNodes(input, screenshotNodes)
     IN IF DOMAIN exportNodes # {}
        THEN /\ EnterExportImages("ExportFlagged", exportNodes,
                                  input.opts.ImageFormat, input.opts.ImageScales,
                                  faults)
             /\ pc' = "phase1_call"
             /\ phaseLog' = Append(phaseLog, "ExportFlagged")
        ELSE /\ pc' = "phase2"
             /\ UNCHANGED <<phaseLog, faults, callVars>>
  /\ UNCHANGED <<input, screenshotNodes, unresolvedNodes, ExportedAssets, ret,
                 files, calls, idx, log>>

(***************************************************************************)
(* imager.detectExtensionFromURL                                           *)
(***************************************************************************)
\* index of the first occurrence of c in s, 0 if none
IndexOf(s, c) ==
  IF \E i \in DOMAIN s : s[i] = c
  THEN CHOOSE i \in DOMAIN s : s[i] = c /\ \A j \in DOMAIN s : j < i => s[j] # c
  ELSE 0

Before(s, c) == IF IndexOf(s, c) = 0 THEN s ELSE SubSeq(s, 1, IndexOf(s, c) - 1)

IsLetter(c) == \E i \in DOMAIN Lower : Lower[i] = c \/ Upper[i] = c

IsSchemeChar(c) ==
  IsLetter(c) \/ (\E i \in DOMAIN Digits : Digits[i] = c) \/ c \in {"+", "-", "."}

\* net/url getScheme: the length of the scheme, 0 if there is none, -1 for the
\* "missing protocol scheme" error
SchemeLen(raw) ==
  LET stops == {i \in DOMAIN raw : ~IsSchemeChar(raw[i])}
      j == IF stops = {} THEN 0 ELSE CHOOSE i \in stops : \A k \in stops : i <= k
  IN IF raw = <<>> THEN 0
     ELSE IF raw[1] = ":" THEN -1
     ELSE IF ~IsLetter(raw[1]) THEN 0
     ELSE IF j > 0 /\ raw[j] = ":" THEN j - 1
     ELSE 0

ControlChars == {"\n", "\t", "\r"}

\* net/url Parse, as far as the path goes: [ok, Path]
URLParse(rawURL) ==
  LET noFrag == Before(rawURL, "#")
      sl == SchemeLen(noFrag)
      rest0 == IF sl > 0 THEN SubSeq(noFrag, sl + 2, Len(noFrag)) ELSE noFrag
      rest == Before(rest0, "?")
      rooted == rest # <<>> /\ rest[1] = "/"
      hasAuth == Len(rest) >= 2 /\ rest[1] = "/" /\ rest[2] = "/"
      afterAuth == SubSeq(rest, 3, Len(rest))
      path == IF hasAuth
              THEN (IF IndexOf(afterAuth, "/") = 0 THEN <<>>
                    ELSE SubSeq(afterAuth, IndexOf(afterAuth, "/"), Len(afterAuth)))
              ELSE IF sl > 0 /\ ~rooted THEN <<>>
              ELSE rest
      colonFirst == sl = 0 /\ ~rooted /\ IndexOf(Before(rest, "/"), ":") > 0
  IN IF (\E i \in DOMAIN rawURL : rawURL[i] \in ControlChars) \/ sl < 0 \/ colonFirst
     THEN [ok |-> FALSE, Path |-> <<>>]
     ELSE [ok |-> TRUE, Path |-> path]

detectExtensionFromURL(rawURL) ==
  LET u == URLParse(rawURL)
      ext == Ext(u.Path)
  IN IF ~u.ok THEN png
     ELSE IF ext # <<>> THEN SubSeq(ext, 2, Len(ext))
     ELSE png

(***************************************************************************)
(* imager.ExportImageFills                                                 *)
(***************************************************************************)
\* lines 255-265: enter ExportImageFills; os.MkdirAll may fail
EnterExportImageFills(images, fills, f0) ==
  /\ result' = EmptyResult
  /\ usedNames' = EmptyMap
  /\ pending' = EmptyMap
  /\ gor' = [k \in {} |-> 0]
  /\ sem' = 0
  /\ mu' = {}
  /\ wg' = 0
  /\ \/ /\ call' = [NoCall EXCEPT !.fn = "ExportImageFills", !.phase = "EmbeddedFills",
                                  !.fills = fills, !.fi = 1, !.images = images,
                                  !.Format = input.opts.ImageFormat]
        /\ cpc' = "fills"
        /\ callErr' = ""
        /\ faults' = f0
     \/ /\ f0 < MaxFaults
        /\ faults' = f0 + 1
        /\ call' = [NoCall EXCEPT !.fn = "ExportImageFills", !.phase = "EmbeddedFills",
                                  !.fills = fills, !.images = images]
        /\ cpc' = "ret"
        /\ callErr' = "mkdir"

\* variant: an empty URL counts as a download URL
HasDownloadURLPresent(images, node) ==
  node.ImageRef \in DOMAIN images

\* lines 268-269: the fill's image ref has a non-empty download URL
HasDownloadURL(images, node) ==
  IF node.ImageRef \in DOMAIN images THEN images[node.ImageRef] # <<>> ELSE FALSE

\* lines 267-272: the next fill node has no download URL: it is unresolved
FillUnresolved ==
  /\ cpc = "fills"
  /\ call.fi <= Len(call.fills)
  /\ LET node == call.fills[call.fi]
     IN /\ ~HasDownloadURL(call.images, node)
        /\ result' = [result EXCEPT !.UnresolvedNodes = Append(@, node)]
  /\ call' = [call EXCEPT !.fi = call.fi + 1]
  /\ UNCHANGED <<pipeVars, files, calls, faults, cpc, callErr, usedNames, pending,
                 gor, sem, mu, wg>>

\* lines 267-311: the next fill node has a download URL: name its file through
\* the registry and spawn its download goroutine
FillSpawn ==
  /\ cpc = "fills"
  /\ call.fi <= Len(call.fills)
  /\ LET node == call.fills[call.fi]
     IN /\ HasDownloadURL(call.images, node)
        /\ LET downloadURL == call.images[node.ImageRef]
               ext == detectExtensionFromURL(downloadURL)
               r == RegisterName(usedNames,
                                 buildFileName(node.NodeName, node.NodeID, ext, 1))
           IN /\ usedNames' = r.usedNames
              /\ gor' = Put(gor, [s |-> call.fi, n |-> node.NodeID],
                            [pc |-> "sem", nID |-> node.NodeID, url |-> downloadURL,
                             nodeName |-> node.NodeName, fileName |-> r.fileName,
                             seen |-> 0, scale |-> 1, dl |-> "none"])
  /\ wg' = wg + 1
  /\ call' = [call EXCEPT !.fi = call.fi + 1]
  /\ UNCHANGED <<pipeVars, files, calls, faults, cpc, callErr, result, pending,
                 sem, mu>>

\* lines 314-315: wg.Wait(), return result
FillsWait ==
  /\ cpc = "fills"
  /\ call.fi > Len(call.fills)
  /\ WaitDone(wg)
  /\ cpc' = "ret"
  /\ UNCHANGED <<pipeVars, files, calls, faults, call, callErr, result, usedNames,
                 pending, gor, sem, mu, wg>>

\* line 292: sem <- struct{}{}
FillAcquire(k) ==
  /\ gor[k].pc = "sem"
  /\ SemFree(sem)
  /\ sem' = sem + 1
  /\ gor' = SetGor(k, [gor[k] EXCEPT !.pc = "dl"])
  /\ UNCHANGED <<pipeVars, files, calls, faults, call, cpc, callErr, result,
                 usedNames, pending, mu, wg>>

\* line 295: the transfer
FillDownload(k) ==
  /\ gor[k].pc = "dl"
  /\ \E outcome \in DownloadOutcomes(input.flaky, MaxFaults - faults) :
       /\ files' = downloadFile(files, gor[k].url, gor[k].fileName, outcome)
       /\ faults' = IF outcome = "ok" THEN faults ELSE faults + 1
       /\ gor' = SetGor(k, [gor[k] EXCEPT
                    !.dl = outcome,
                    !.pc = AfterDownload(outcome)])
  /\ UNCHANGED <<pipeVars, calls, call, cpc, callErr, result, usedNames, pending,
                 sem, mu, wg>>

\* line 296: mu.Lock() on the failure path
FillLockErr(k) ==
  /\ gor[k].pc = "lockErr"
  /\ MuFree(mu)
  /\ mu' = {k}
  /\ gor' = SetGor(k, [gor[k] EXCEPT !.pc = "err"])
  /\ UNCHANGED <<pipeVars, files, calls, faults, call, cpc, callErr, result,
                 usedNames, pending, sem, wg>>

\* lines 297-299, then the deferred calls of lines 293 and 291
FillAppendErr(k) ==
  /\ gor[k].pc = "err"
  /\ result' = [result EXCEPT
                  !.Errors = Append(@, DownloadError(gor[k].nodeName, gor[k].dl))]
  /\ mu' = mu \ {k}
  /\ sem' = Release(sem)
  /\ wg' = wg - 1
  /\ gor' = SetGor(k, [gor[k] EXCEPT !.pc = "done"])
  /\ UNCHANGED <<pipeVars, files, calls, faults, call, cpc, callErr, usedNames,
                 pending>>

\* line 302: mu.Lock() on the success path
FillLockAsset(k) ==
  /\ gor[k].pc = "lockAsset"
  /\ MuFree(mu)
  /\ mu' = {k}
  /\ gor' = SetGor(k, [gor[k] EXCEPT !.pc = "asset"])
  /\ UNCHANGED <<pipeVars, files, calls, faults, call, cpc, callErr, result,
                 usedNames, pending, sem, wg>>

\* lines 303-310, then the deferred calls of lines 293 and 291
FillAppendAsset(k) ==
  /\ gor[k].pc = "asset"
  /\ LET fName == gor[k].fileName
         fmt == SubSeq(Ext(fName), 2, Len(Ext(fName)))
     IN result' = [result EXCEPT
                     !.Assets = Append(@, ExportedAsset(gor[k].nID, gor[k].nodeName,
                                                        fName, fmt, 1))]
  /\ mu' = mu \ {k}
  /\ sem' = Release(sem)
  /\ wg' = wg - 1
  /\ gor' = SetGor(k, [gor[k] EXCEPT !.pc = "done"])
  /\ UNCHANGED <<pipeVars, files, calls, faults, call, cpc, callErr, usedNames,
                 pending>>

\* the steps of a goroutine whose transfer succeeds
FillGoroutineOk ==
  /\ call.fn = "ExportImageFills"
  /\ \E k \in DOMAIN gor :
       \/ FillAcquire(k)
       \/ FillDownload(k)
       \/ FillLockAsset(k)
       \/ FillAppendAsset(k)

\* the steps after a failed transfer
FillGoroutineErr ==
  /\ call.fn = "ExportImageFills"
  /\ \E k \in DOMAIN gor :
       \/ FillLockErr(k)
       \/ FillAppendErr(k)

ExportImageFillsMain == FillUnresolved \/ FillSpawn \/ FillsWait

(***************************************************************************)
(* figmaextractor.exportImages, continued                                  *)
(***************************************************************************)
jpg == <<"j","p","g">>

pdf == <<"p","d","f">>

validFormats == {png, svg, jpg, pdf}

screenshotName(format) ==
  <<"c","o","m","p","l","e","t","e","_","d","e","s","i","g","n","_",
    "s","c","r","e","e","n","s","h","o","t",".">> \o format

ExportedAssetInfo(asset, fileName, isScreenshot) ==
  [NodeID |-> asset.NodeID, NodeName |-> asset.NodeName, FileName |-> fileName,
   Format |-> asset.Format, Scale |-> asset.Scale, IsScreenshot |-> isScreenshot]

Warn(what) == [level |-> "warn", what |-> what]

CallFailed(name, cause) == [kind |-> name, node |-> <<>>, cause |-> cause]

\* opts.logWarn / opts.logError: nothing is kept when no Logger is configured
Logged(lg, entries) == IF input.opts.Logger THEN lg \o entries ELSE lg

InitPipe ==
  /\ pc = "start"
  /\ screenshotNodes = EmptyMap
  /\ unresolvedNodes = <<>>
  /\ ExportedAssets = <<>>
  /\ ret = "running"
  /\ files = EmptyMap
  /\ calls = <<>>
  /\ phaseLog = <<>>
  /\ idx = 0
  /\ log = <<>>
  /\ faults = 0
  /\ InitCall

\* the screenshot is rendered at every requested scale
ScreenshotScalesAsRequested(scales) == scales

\* lines 302-306: the screenshot call's ExportConfig has Scales []float64{1},
\* whatever opts.ImageScales holds
ScreenshotScales(scales) == <<1>>

\* lines 262-306: validate the options, build the screenshot set and render it
\* at scale 1
StartScreenshot ==
  /\ pc = "start"
  /\ IF input.opts.ImageFormat \notin validFormats
     THEN /\ ret' = "invalid image format"
          /\ pc' = "done"
          /\ UNCHANGED <<screenshotNodes, phaseLog, faults, callVars>>
     ELSE IF \E i \in DOMAIN input.opts.ImageScales : input.opts.ImageScales[i] <= 0
     THEN /\ ret' = "scale value must be positive"
          /\ pc' = "done"
          /\ UNCHANGED <<screenshotNodes, phaseLog, faults, callVars>>
     ELSE /\ screenshotNodes' = ScreenshotNodes(input)
          /\ EnterExportImages("Screenshot", screenshotNodes',
                               input.opts.ImageFormat,
                               ScreenshotScales(input.opts.ImageScales), faults)
          /\ phaseLog' = Append(phaseLog, "Screenshot")
          /\ pc' = "screenshot"
          /\ UNCHANGED ret
  /\ UNCHANGED <<input, unresolvedNodes, ExportedAssets, files, calls, idx, log>>

\* a failed screenshot render ends the run with its error
ScreenshotReturnAborts ==
  /\ pc = "screenshot"
  /\ cpc = "ret"
  /\ IF callErr # ""
     THEN /\ ret' = "export images"
          /\ pc' = "done"
          /\ UNCHANGED <<idx, log>>
     ELSE /\ idx' = 1
          /\ pc' = IF Len(result.Assets) = 0 THEN "phase1" ELSE "rename"
          /\ UNCHANGED <<log, ret>>
  /\ UNCHANGED <<input, screenshotNodes, unresolvedNodes, ExportedAssets,
                 files, calls, phaseLog, faults, callVars>>

\* lines 307-310: the screenshot render returned
ScreenshotReturn ==
  /\ pc = "screenshot"
  /\ cpc = "ret"
  /\ IF callErr # ""
     THEN /\ log' = Logged(log, <<Warn(CallFailed("Screenshot failed", callErr))>>)
          /\ pc' = "phase1"
          /\ UNCHANGED idx
     ELSE /\ idx' = 1
          /\ pc' = IF Len(result.Assets) = 0 THEN "phase1" ELSE "rename"
          /\ UNCHANGED log
  /\ UNCHANGED <<input, screenshotNodes, unresolvedNodes, ExportedAssets, ret,
                 files, calls, phaseLog, faults, callVars>>

\* os.Rename: fails when oldPath is gone, and may fail otherwise
RenameOutcomes(fs, old, budget) ==
  IF old \notin DOMAIN fs THEN {"gone"}
  ELSE IF budget > 0 THEN {"ok", "failed"}
  ELSE {"ok"}

Rename(fs, old, new) == Put(Without(fs, {old}), new, fs[old])

\* variant: a screenshot whose rename fails gets no manifest entry
ScreenshotRenameDropsFailed ==
  /\ pc = "rename"
  /\ idx <= Len(result.Assets)
  /\ LET asset == result.Assets[idx]
         new == screenshotName(input.opts.ImageFormat)
     IN \E outcome \in RenameOutcomes(files, asset.FileName, MaxFaults - faults) :
          IF outcome = "ok"
          THEN /\ files' = Rename(files, asset.FileName, new)
               /\ ExportedAssets' = Append(ExportedAssets,
                                           ExportedAssetInfo(asset, new, TRUE))
               /\ UNCHANGED <<faults, log>>
          ELSE /\ log' = Logged(log, <<Warn(CallFailed("Could not rename screenshot",
                                                      outcome))>>)
               /\ faults' = IF outcome = "failed" THEN faults + 1 ELSE faults
               /\ UNCHANGED <<files, ExportedAssets>>
  /\ idx' = idx + 1
  /\ pc' = IF idx' > Len(result.Assets) THEN "phase1" ELSE "rename"
  /\ UNCHANGED <<input, screenshotNodes, unresolvedNodes, ret, calls, phaseLog,
                 callVars>>

\* lines 310-333: one iteration of the loop over the screenshot assets
ScreenshotRename ==
  /\ pc = "rename"
  /\ idx <= Len(result.Assets)
  /\ LET asset == result.Assets[idx]
         new == screenshotName(input.opts.ImageFormat)
     IN \E outcome \in RenameOutcomes(files, asset.FileName, MaxFaults - faults) :
          IF outcome = "ok"
          THEN /\ files' = Rename(files, asset.FileName, new)
               /\ ExportedAssets' = Append(ExportedAssets,
                                           ExportedAssetInfo(asset, new, TRUE))
               /\ UNCHANGED <<faults, log>>
          ELSE /\ log' = Logged(log, <<Warn(CallFailed("Could not rename screenshot",
                                                      outcome))>>)
               /\ ExportedAssets' = Append(ExportedAssets,
                                           ExportedAssetInfo(asset, asset.FileName, TRUE))
               /\ faults' = IF outcome = "failed" THEN faults + 1 ELSE faults
               /\ UNCHANGED files
  /\ idx' = idx + 1
  /\ pc' = IF idx' > Len(result.Assets) THEN "phase1" ELSE "rename"
  /\ UNCHANGED <<input, screenshotNodes, unresolvedNodes, ret, calls, phaseLog,
                 callVars>>

AssetInfos(assets) ==
  [i \in DOMAIN assets |-> ExportedAssetInfo(assets[i], assets[i].FileName, FALSE)]

Warnings(errors) == [i \in DOMAIN errors |-> Warn(errors[i])]

\* an error returned by ExportImages is only logged
Phase1FatalNever(err, res) == FALSE

\* any per-asset error record ends the run as well
Phase1FatalOnAnyError(err, res) == err # "" \/ Len(res.Errors) > 0

\* lines 371-373: only an error returned by ExportImages ends the run
Phase1Fatal(err, res) == err # ""

\* lines 370-389: Phase 1's render returned: an error ends the run, otherwise
\* its assets join the manifest
Phase1Return ==
  /\ pc = "phase1_call"
  /\ cpc = "ret"
  /\ IF Phase1Fatal(callErr, result)
     THEN /\ ret' = "export images"
          /\ pc' = "done"
          /\ UNCHANGED <<ExportedAssets, log>>
     ELSE /\ log' = Logged(log, Warnings(result.Errors))
          /\ ExportedAssets' = ExportedAssets \o AssetInfos(result.Assets)
          /\ pc' = "phase2"
          /\ UNCHANGED ret
  /\ UNCHANGED <<input, screenshotNodes, unresolvedNodes, files, calls, phaseLog,
                 idx, faults, callVars>>

\* lines 392-402: the roots whose subtrees are searched for image fills
Roots(in) ==
  IF Len(in.targetNodeIDs) > 0
  THEN LET found == SelectSeq(in.targetNodeIDs,
                              LAMBDA id : id \in DOMAIN in.nodesResp.Nodes)
       IN [i \in DOMAIN found |-> in.nodesResp.Nodes[found[i]].Document]
  ELSE <<in.fileResp.Document>>

\* lines 404-412: the image fills outside the screenshot set
\* variant: the collected fills are not filtered by the screenshot set
AllImageFillsUnfiltered(in, shots) ==
  LET roots == Roots(in)
  IN Concat([i \in DOMAIN roots |-> CollectImageFillNodes(roots[i])])

AllImageFills(in, shots) ==
  LET roots == Roots(in)
      all == Concat([i \in DOMAIN roots |-> CollectImageFillNodes(roots[i])])
  IN SelectSeq(all, LAMBDA fill : fill.NodeID \notin DOMAIN shots)

\* what a successful GetFileImages may answer: per image ref of the file its
\* URL, an empty string, or no entry
FileImagesResponses(table, budget) ==
  LET kinds == [DOMAIN table -> {"url", "empty", "absent"}]
      ok(f) == Cardinality({r \in DOMAIN table : f[r] # "url"}) <= budget
  IN {[r \in {x \in DOMAIN table : f[x] # "absent"} |->
         IF f[r] = "url" THEN table[r] ELSE <<>>]
      : f \in {g \in kinds : ok(g)}}

\* lines 414-424: Phase 2 asks the file-images API and downloads what it resolves
Phase2Start ==
  /\ pc = "phase2"
  /\ LET allImageFills == AllImageFills(input, screenshotNodes)
     IN IF Len(allImageFills) = 0
        THEN /\ pc' = "reconcile"
             /\ UNCHANGED <<unresolvedNodes, calls, phaseLog, log, faults, callVars>>
        ELSE /\ phaseLog' = Append(phaseLog, "EmbeddedFills")
             /\ \/ /\ faults < MaxFaults
                   /\ calls' = Append(calls, RemoteCall("GetFileImages", "EmbeddedFills",
                                                        {}, <<>>, 0, FALSE, EmptyMap))
                   /\ faults' = faults + 1
                   /\ log' = Logged(log, <<Warn(CallFailed("File images API failed",
                                                          "get_file_images"))>>)
                   /\ unresolvedNodes' = allImageFills
                   /\ pc' = "fallback"
                   /\ UNCHANGED callVars
                \/ \E resp \in FileImagesResponses(input.fileImages, MaxFaults - faults) :
                     /\ calls' = Append(calls, RemoteCall("GetFileImages", "EmbeddedFills",
                                                          {}, <<>>, 0, TRUE, resp))
                     /\ EnterExportImageFills(resp, allImageFills,
                          faults + RespFaults(DOMAIN input.fileImages, resp))
                     /\ pc' = "phase2_call"
                     /\ UNCHANGED <<unresolvedNodes, log>>
  /\ UNCHANGED <<input, screenshotNodes, ExportedAssets, ret, files, idx>>

\* after the embedded fills the pipeline goes back to Phase 1
Phase2ReturnRestarts ==
  /\ pc = "phase2_call"
  /\ cpc = "ret"
  /\ IF callErr # ""
     THEN /\ ret' = "export image fills"
          /\ pc' = "done"
          /\ UNCHANGED <<ExportedAssets, log, unresolvedNodes>>
     ELSE /\ log' = Logged(log, Warnings(result.Errors))
          /\ ExportedAssets' = ExportedAssets \o AssetInfos(result.Assets)
          /\ unresolvedNodes' = result.UnresolvedNodes
          /\ pc' = "phase1"
          /\ UNCHANGED ret
  /\ UNCHANGED <<input, screenshotNodes, files, calls, phaseLog, idx, faults,
                 callVars>>

\* lines 424-447: ExportImageFills returned
Phase2Return ==
  /\ pc = "phase2_call"
  /\ cpc = "ret"
  /\ IF callErr # ""
     THEN /\ ret' = "export image fills"
          /\ pc' = "done"
          /\ UNCHANGED <<ExportedAssets, log, unresolvedNodes>>
     ELSE /\ log' = Logged(log, Warnings(result.Errors))
          /\ ExportedAssets' = ExportedAssets \o AssetInfos(result.Assets)
          /\ unresolvedNodes' = result.UnresolvedNodes
          /\ pc' = "fallback"
          /\ UNCHANGED ret
  /\ UNCHANGED <<input, screenshotNodes, files, calls, phaseLog, idx, faults,
                 callVars>>

\* only the first unresolved node is handed over
RenderNodesOnlyFirst(unresolved, shots) ==
  Without(ImageFillNodesToMap(SubSeq(unresolved, 1, 1)), DOMAIN shots)

\* lines 453-456: the nodes handed to the render fallback
RenderNodes(unresolved, shots) ==
  Without(ImageFillNodesToMap(unresolved), DOMAIN shots)

\* lines 450-457: render the unresolved fill nodes through the render API
FallbackStart ==
  /\ pc = "fallback"
  /\ IF Len(unresolvedNodes) > 0
     THEN /\ EnterExportImages("RenderFallback",
                RenderNodes(unresolvedNodes, screenshotNodes),
                input.opts.ImageFormat, input.opts.ImageScales, faults)
          /\ phaseLog' = Append(phaseLog, "RenderFallback")
          /\ pc' = "fallback_call"
     ELSE /\ pc' = "reconcile"
          /\ UNCHANGED <<phaseLog, faults, callVars>>
  /\ UNCHANGED <<input, screenshotNodes, unresolvedNodes, ExportedAssets, ret,
                 files, calls, idx, log>>

\* a failed fallback render empties the manifest
FallbackReturnDropsAssets ==
  /\ pc = "fallback_call"
  /\ cpc = "ret"
  /\ IF callErr # ""
     THEN /\ log' = Logged(log, <<[level |-> "error",
                                   what |-> CallFailed("Rendering images failed",
                                                       callErr)]>>)
          /\ ExportedAssets' = <<>>
     ELSE /\ log' = Logged(log, Warnings(result.Errors))
          /\ ExportedAssets' = ExportedAssets \o AssetInfos(result.Assets)
  /\ pc' = "reconcile"
  /\ UNCHANGED <<input, screenshotNodes, unresolvedNodes, ret, files, calls,
                 phaseLog, idx, faults, callVars>>

\* a failed fallback render ends the run with its error
FallbackReturnFatal ==
  /\ pc = "fallback_call"
  /\ cpc = "ret"
  /\ IF callErr # ""
     THEN /\ ret' = "export images"
          /\ pc' = "done"
          /\ UNCHANGED <<ExportedAssets, log>>
     ELSE /\ log' = Logged(log, Warnings(result.Errors))
          /\ ExportedAssets' = ExportedAssets \o AssetInfos(result.Assets)
          /\ pc' = "reconcile"
          /\ UNCHANGED ret
  /\ UNCHANGED <<input, screenshotNodes, unresolvedNodes, files, calls,
                 phaseLog, idx, faults, callVars>>

\* lines 457-478: the fallback render returned; its failure is only logged
FallbackReturn ==
  /\ pc = "fallback_call"
  /\ cpc = "ret"
  /\ IF callErr # ""
     THEN /\ log' = Logged(log, <<[level |-> "error",
                                   what |-> CallFailed("Rendering images failed",
                                                       callErr)]>>)
          /\ UNCHANGED ExportedAssets
     ELSE /\ log' = Logged(log, Warnings(result.Errors))
          /\ ExportedAssets' = ExportedAssets \o AssetInfos(result.Assets)
  /\ pc' = "reconcile"
  /\ UNCHANGED <<input, screenshotNodes, unresolvedNodes, ret, files, calls,
                 phaseLog, idx, faults, callVars>>

\* the comparison of node names (excludeNames) is left out
DuplicatesScreenshotByID(a, shots) ==
  /\ ~a.IsScreenshot
  /\ a.NodeID \in DOMAIN shots

\* line 491: the asset duplicates a node of the screenshot set
DuplicatesScreenshot(a, shots) ==
  /\ ~a.IsScreenshot
  /\ \/ a.NodeID \in DOMAIN shots
     \/ \E id \in DOMAIN shots : shots[id] = a.NodeName

\* lines 481-500: Phase 3 drops the non-screenshot assets that duplicate a
\* screenshot node, removes their files, and the pipeline returns nil
Reconcile ==
  /\ pc = "reconcile"
  /\ phaseLog' = Append(phaseLog, "Reconcile")
  /\ IF DOMAIN screenshotNodes # {}
     THEN LET dropped == {ExportedAssets[i].FileName : i \in
                            {j \in DOMAIN ExportedAssets :
                               DuplicatesScreenshot(ExportedAssets[j], screenshotNodes)}}
          IN /\ ExportedAssets' = SelectSeq(ExportedAssets,
                   LAMBDA a : ~DuplicatesScreenshot(a, screenshotNodes))
             /\ files' = Without(files, dropped)
     ELSE UNCHANGED <<ExportedAssets, files>>
  /\ ret' = "nil"
  /\ pc' = "done"
  /\ UNCHANGED <<input, screenshotNodes, unresolvedNodes, calls, idx, log, faults,
                 callVars>>

Init == input \in Scenarios /\ InitPipe

Next ==
  \/ StartScreenshot
  \/ ScreenshotReturn
  \/ ScreenshotRename
  \/ Phase1Start
  \/ Phase1Return
  \/ Phase2Start
  \/ Phase2Return
  \/ FallbackStart
  \/ FallbackReturn
  \/ Reconcile
  \/ ExportImagesMain
  \/ ImgGoroutineOk
  \/ ImgGoroutineErr
  \/ ExportImageFillsMain
  \/ FillGoroutineOk
  \/ FillGoroutineErr

Spec == Init /\ [][Next]_vars

(***************************************************************************)
(* One imager call on a wide page (ExportImages for its export-flagged     *)
(* nodes, or ExportImageFills for its embedded images), entered after a    *)
(* screenshot render that failed as a whole                                *)
(***************************************************************************)
InitWide ==
  /\ input \in {Wide, WideFills}
  /\ pc = "phase1"
  /\ screenshotNodes = ScreenshotNodes(input)
  /\ unresolvedNodes = <<>>
  /\ ExportedAssets = <<>>
  /\ ret = "running"
  /\ files = EmptyMap
  /\ calls = <<RemoteCall("GetImages", "Screenshot", DOMAIN ScreenshotNodes(input),
                          png, 1, FALSE, EmptyMap)>>
  /\ phaseLog = <<"Screenshot">>
  /\ idx = 0
  /\ log = <<[level |-> "warn", what |-> "Screenshot failed"]>>
  /\ faults = MaxFaults - 1
  /\ InitCall

NextCall ==
  \/ Phase1Start
  \/ Phase2Start
  \/ ExportImagesMain
  \/ ImgGoroutineOk
  \/ ExportImageFillsMain
  \/ FillGoroutineOk

SpecCall == InitWide /\ [][NextCall]_vars

(***************************************************************************)
(* figmaextractor.Run with ExportImages set: the file (and, in node mode,  *)
(* the nodes) are fetched, then exportImages runs; its error is Run's      *)
(* error, and on nil Run hands back a Result                               *)
(***************************************************************************)
\* a whole-file run that asks for a format the render endpoint does not have
BadFormat ==
  WholeFile(<<"g","i","f">>, <<1>>,
    Node(<<"0",":","0">>, <<"D","o","c">>, 0, NoFills, <<
      Leaf(<<"0",":","1">>, <<"P","a","g","e">>, 1, NoFills)>>),
    EmptyMap)

\* ThreeFills with a nil Logger
Silent == [ThreeFills EXCEPT !.opts.Logger = FALSE]

InitRun ==
  /\ input \in {Nested, Silent, BadFormat}
  /\ pc = "run"
  /\ screenshotNodes = EmptyMap
  /\ unresolvedNodes = <<>>
  /\ ExportedAssets = <<>>
  /\ ret = "running"
  /\ files = EmptyMap
  /\ calls = <<>>
  /\ phaseLog = <<>>
  /\ idx = 0
  /\ log = <<>>
  /\ faults = 0
  /\ InitCall

\* lines 198-205: node mode: client.GetFileNodes
RunFetchNodes ==
  /\ pc = "run"
  /\ Len(input.targetNodeIDs) > 0
  /\ \/ /\ calls' = Append(calls, RemoteCall("GetFileNodes", "Run",
                                             Elems(input.targetNodeIDs), <<>>, 0,
                                             TRUE, EmptyMap))
        /\ pc' = "run_file"
        /\ UNCHANGED <<ret, faults>>
     \/ /\ faults < MaxFaults
        /\ faults' = faults + 1
        /\ calls' = Append(calls, RemoteCall("GetFileNodes", "Run",
                                             Elems(input.targetNodeIDs), <<>>, 0,
                                             FALSE, EmptyMap))
        /\ ret' = "fetch nodes"
        /\ pc' = "done"
  /\ UNCHANGED <<input, screenshotNodes, unresolvedNodes, ExportedAssets, files,
                 phaseLog, idx, log, callVars>>

\* lines 207-214 and 221-229: client.GetFile, in both modes; exportImages
\* follows at line 236
RunFetchFile ==
  /\ \/ pc = "run" /\ Len(input.targetNodeIDs) = 0
     \/ pc = "run_file"
  /\ \/ /\ calls' = Append(calls, RemoteCall("GetFile", "Run", {}, <<>>, 0,
                                             TRUE, EmptyMap))
        /\ pc' = "start"
        /\ UNCHANGED <<ret, faults>>
     \/ /\ faults < MaxFaults
        /\ faults' = faults + 1
        /\ calls' = Append(calls, RemoteCall("GetFile", "Run", {}, <<>>, 0,
                                             FALSE, EmptyMap))
        /\ ret' = IF pc = "run" THEN "fetch file" ELSE "fetch file metadata"
        /\ pc' = "done"
  /\ UNCHANGED <<input, screenshotNodes, unresolvedNodes, ExportedAssets, files,
                 phaseLog, idx, log, callVars>>

\* lines 124-128: the Result type
Result(specs, fileName, markdown) ==
  [Specs |-> specs, FileName |-> fileName, Markdown |-> markdown]

\* lines 251-255: what Run returns with a nil error; the markdown is written
\* from the specs
RunResult ==
  LET specs == [ExportedAssets |-> ExportedAssets]
  IN Result(specs, input.fileResp.Document.Name,
            [i \in DOMAIN ExportedAssets |-> ExportedAssets[i].FileName])

NextRun ==
  \/ RunFetchNodes
  \/ RunFetchFile
  \/ Next

SpecRun == InitRun /\ [][NextRun]_vars

(***************************************************************************)
(* Phase 0 run twice on the same input with the same remote answers: no    *)
(* remote call, transfer or rename fails. After the first Phase 0 the      *)
(* caller notes the image it finds under the screenshot name and starts    *)
(* exportImages again in an empty output directory                         *)
(***************************************************************************)
InitTwice ==
  /\ input \in {SameNames, Headers}
  /\ pc = "start"
  /\ screenshotNodes = EmptyMap
  /\ unresolvedNodes = <<>>
  /\ ExportedAssets = <<>>
  /\ ret = "running"
  /\ files = EmptyMap
  /\ calls = <<>>
  /\ phaseLog = <<>>
  /\ idx = 0
  /\ log = <<>>
  /\ faults = MaxFaults
  /\ InitCall

\* the caller reads complete_design_screenshot.{format}, keeps what it holds,
\* and calls exportImages once more with the same arguments
Rerun ==
  /\ pc = "phase1"
  /\ log = <<>>
  /\ screenshotName(input.opts.ImageFormat) \in DOMAIN files
  /\ log' = <<[level |-> "info",
               what |-> files[screenshotName(input.opts.ImageFormat)]]>>
  /\ pc' = "start"
  /\ screenshotNodes' = EmptyMap
  /\ unresolvedNodes' = <<>>
  /\ ExportedAssets' = <<>>
  /\ ret' = "running"
  /\ files' = EmptyMap
  /\ calls' = <<>>
  /\ phaseLog' = <<>>
  /\ idx' = 0
  /\ call' = NoCall
  /\ cpc' = "idle"
  /\ callErr' = ""
  /\ result' = EmptyResult
  /\ usedNames' = EmptyMap
  /\ pending' = EmptyMap
  /\ gor' = [k \in {} |-> 0]
  /\ sem' = 0
  /\ mu' = {}
  /\ wg' = 0
  /\ UNCHANGED <<input, faults>>

\* every node gets a URL, so the steps that record a missing URL are left out
NextTwice ==
  \/ StartScreenshot
  \/ GetImagesCall
  \/ RangeSpawn
  \/ WaitBatch
  \/ ImgGoroutineOk
  \/ ScreenshotReturn
  \/ ScreenshotRename
  \/ Rerun

SpecTwice == InitTwice /\ [][NextTwice]_vars

(***************************************************************************)
(* figma.Client.GetImages and figma.Client.GetFileImages: one call with    *)
(* its HTTP attempts. calls remembers every attempt with its outcome and   *)
(* every sleep with its length in seconds; idx is the attempt number       *)
(***************************************************************************)
\* every status is retried
RetryableStatusAny(status) == TRUE

\* types.go:493 and 557: the statuses that are tried again
RetryableStatus(status) == status = 429 \/ status >= 500

InitRetry ==
  /\ input = SameNames
  /\ pc = "client"
  /\ screenshotNodes = EmptyMap
  /\ unresolvedNodes = <<>>
  /\ ExportedAssets = <<>>
  /\ ret = "running"
  /\ files = EmptyMap
  /\ calls = <<>>
  /\ phaseLog = <<>>
  /\ idx = 0
  /\ log = <<>>
  /\ faults = 0
  /\ InitCall

\* types.go:456-473 and 532-537: the call is entered; GetImages refuses an
\* empty list of node IDs before it builds the request
ClientEnter ==
  /\ pc = "client"
  /\ cpc = "idle"
  /\ \E fn \in {"GetImages", "GetFileImages"} :
       \E ids \in {{}, {<<"1",":","1">>}} :
         /\ fn = "GetFileImages" => ids = {}
         /\ call' = [NoCall EXCEPT !.fn = fn, !.todo = ids]
         /\ IF fn = "GetImages" /\ ids = {}
            THEN /\ callErr' = "no node IDs provided"
                 /\ cpc' = "returned"
                 /\ UNCHANGED idx
            ELSE /\ idx' = 1
                 /\ cpc' = "attempt"
                 /\ UNCHANGED callErr
  /\ UNCHANGED <<input, pc, screenshotNodes, unresolvedNodes, ExportedAssets, ret,
                 files, calls, phaseLog, log, faults, result, usedNames, pending,
                 gor, sem, mu, wg>>

\* types.go:474-524 and 538-588: one pass of the attempt loop: the request is
\* sent; the transport fails, or a status comes back with a body that cannot
\* be read, is not JSON, carries an err field, or is a good answer
ClientAttempt ==
  /\ pc = "client"
  /\ cpc = "attempt"
  /\ \E o \in [transport : {TRUE}, status : {0}, body : {"none"}]
            \cup [transport : {FALSE},
                  status : {400, 403, 404, 429, 499, 500, 503},
                  body : {"text"}]
            \cup [transport : {FALSE}, status : {200},
                  body : {"unreadable", "malformed", "err", "ok"}] :
       /\ calls' = Append(calls, [ev |-> "http", attempt |-> idx, outcome |-> o,
                                  seconds |-> 0])
       /\ IF o.transport
          THEN IF idx < maxRetries
               THEN cpc' = "sleep" /\ UNCHANGED callErr
               ELSE cpc' = "returned" /\ callErr' = "failed to execute request"
          ELSE IF o.status # 200
          THEN IF idx < maxRetries /\ RetryableStatus(o.status)
               THEN cpc' = "sleep" /\ UNCHANGED callErr
               ELSE cpc' = "returned" /\ callErr' = "API request failed with status"
          ELSE IF o.body = "unreadable"
          THEN IF idx < maxRetries
               THEN cpc' = "sleep" /\ UNCHANGED callErr
               ELSE cpc' = "returned" /\ callErr' = "failed to read response body"
          ELSE IF o.body = "malformed"
          THEN cpc' = "returned" /\ callErr' = "failed to parse response"
          ELSE IF o.body = "err"
          THEN cpc' = "returned" /\ callErr' = "API error"
          ELSE cpc' = "returned" /\ UNCHANGED callErr
  /\ UNCHANGED <<input, pc, screenshotNodes, unresolvedNodes, ExportedAssets, ret,
                 files, phaseLog, idx, log, faults, call, result, usedNames,
                 pending, gor, sem, mu, wg>>

\* time.Sleep(time.Duration(attempt) * 2 * time.Second); continue
ClientSleep ==
  /\ pc = "client"
  /\ cpc = "sleep"
  /\ calls' = Append(calls, [ev |-> "sleep", attempt |-> idx,
                             outcome |-> [transport |-> FALSE, status |-> 0,
                                          body |-> "none"],
                             seconds |-> idx * 2])
  /\ idx' = idx + 1
  /\ cpc' = "attempt"
  /\ UNCHANGED <<input, pc, screenshotNodes, unresolvedNodes, ExportedAssets, ret,
                 files, phaseLog, log, faults, call, callErr, result, usedNames,
                 pending, gor, sem, mu, wg>>

NextRetry ==
  \/ ClientEnter
  \/ ClientAttempt
  \/ ClientSleep

SpecRetry == InitRetry /\ [][NextRetry]_vars

(***************************************************************************)
(* imager.ExportImages on pages of up to 2 * maxNodesPerRequest +          *)
(* ExtraNodes export-flagged nodes: the scale loop and the batch loop of   *)
(* the calling goroutine. Every answer carries a URL for every requested   *)
(* ID and every transfer succeeds; the downloads of one batch are taken as *)
(* one step with the GetImages call that precedes them                     *)
(***************************************************************************)
PageNodeID(k) == <<"2",":">> \o FmtInt(k)

\* a document with one page of n export-flagged nodes
PageOf(n) ==
  Node(<<"0",":","0">>, <<"D","o","c">>, 0, NoFills, <<
    Node(<<"0",":","1">>, <<"P","a","g","e">>, 0, NoFills,
      [k \in 1..n |-> Leaf(PageNodeID(k), <<"n">> \o FmtInt(k), 1, NoFills)])>>)

InitBatch ==
  /\ input \in {Run(format, scales, PageOf(n), <<>>, EmptyMap, EmptyMap, FALSE) :
                  format \in {png, svg},
                  scales \in {<<1>>, <<1, 2>>, <<1, 2, 3>>},
                  n \in {0, 1, maxNodesPerRequest, maxNodesPerRequest + 1, 2 * maxNodesPerRequest,
                        2 * maxNodesPerRequest + ExtraNodes}}
  /\ pc = "phase1"
  /\ screenshotNodes = ScreenshotNodes(input)
  /\ unresolvedNodes = <<>>
  /\ ExportedAssets = <<>>
  /\ ret = "running"
  /\ files = EmptyMap
  /\ calls = <<>>
  /\ phaseLog = <<"Screenshot">>
  /\ idx = 0
  /\ log = <<>>
  /\ faults = MaxFaults - 1
  /\ InitCall

\* the batch runs from offset i to the end of the slice
BatchToEnd(nodeIDs, i) == SubSeq(nodeIDs, i + 1, Len(nodeIDs))

\* imager.go:90-94: batch := nodeIDs[i:end] with end = min(i+100, len(nodeIDs))
BatchAt(nodeIDs, i) ==
  SubSeq(nodeIDs, i + 1, Min(i + maxNodesPerRequest, Len(nodeIDs)))

\* imager.go:76-86: nodeIDs is filled by ranging over the map, in an order the
\* runtime picks (here: ascending or descending), then the effective scales
BatchEnter ==
  /\ pc = "phase1"
  /\ cpc = "idle"
  /\ LET nodes == ExportNodes(input, screenshotNodes)
         n == Cardinality(DOMAIN nodes)
     IN \E order \in {"asc", "desc"} :
          LET nodeIDs == [k \in 1..n |->
                            PageNodeID(IF order = "asc" THEN k ELSE n + 1 - k)]
              scales == EffectiveScales(input.opts.ImageFormat,
                                        input.opts.ImageScales)
          IN /\ Elems(nodeIDs) = DOMAIN nodes
             /\ call' = [fn |-> "ExportImages", phase |-> "ExportFlagged",
                         nodes |-> nodes, Format |-> input.opts.ImageFormat,
                         scales |-> scales, si |-> 1, nodeIDs |-> nodeIDs, i |-> 0]
             /\ cpc' = IF n = 0 THEN "ret" ELSE "batch"
  /\ pc' = "phase1_call"
  /\ phaseLog' = Append(phaseLog, "ExportFlagged")
  /\ UNCHANGED <<input, screenshotNodes, unresolvedNodes, ExportedAssets, ret,
                 files, calls, idx, log, faults, callErr, result, usedNames,
                 pending, gor, sem, mu, wg>>

\* imager.go:88-160: one pass of the inner loop: GetImages for the batch at
\* offset i; its error ends the call; otherwise every image of the answer is
\* downloaded and recorded, and the loops move on
BatchPass ==
  /\ pc = "phase1_call"
  /\ cpc = "batch"
  /\ LET batch == BatchAt(call.nodeIDs, call.i)
         scale == call.scales[call.si]
         resp == [id \in Elems(batch) |-> RenderURL(id, call.Format, scale)]
         name(id) == buildFileName(call.nodes[id], id, call.Format, scale)
         next == call.i + maxNodesPerRequest
     IN \/ /\ calls' = Append(calls, RemoteCall("GetImages", call.phase, Elems(batch),
                                                call.Format, scale, TRUE, resp))
           /\ result' = [result EXCEPT !.Assets = @ \o
                           [k \in DOMAIN batch |->
                              ExportedAsset(batch[k], call.nodes[batch[k]],
                                            name(batch[k]), call.Format, scale)]]
           /\ usedNames' = [f \in DOMAIN usedNames \cup {name(id) : id \in Elems(batch)}
                              |-> 1]
           /\ files' = [f \in DOMAIN files \cup {name(id) : id \in Elems(batch)} |->
                          IF f \in DOMAIN files THEN files[f]
                          ELSE FullBody(resp[CHOOSE id \in Elems(batch) : name(id) = f])]
           /\ call' = IF next < Len(call.nodeIDs) THEN [call EXCEPT !.i = next]
                      ELSE [call EXCEPT !.i = 0, !.si = call.si + 1]
           /\ cpc' = IF call'.si > Len(call.scales) THEN "ret" ELSE "batch"
           /\ UNCHANGED <<callErr, faults>>
        \/ /\ faults < MaxFaults
           /\ faults' = faults + 1
           /\ calls' = Append(calls, RemoteCall("GetImages", call.phase, Elems(batch),
                                                call.Format, scale, FALSE, EmptyMap))
           /\ callErr' = "get_images"
           /\ result' = EmptyResult
           /\ cpc' = "ret"
           /\ UNCHANGED <<call, usedNames, files>>
  /\ UNCHANGED <<input, pc, screenshotNodes, unresolvedNodes, ExportedAssets, ret,
                 phaseLog, idx, log, pending, gor, sem, mu, wg>>

NextBatch ==
  \/ BatchEnter
  \/ BatchPass

SpecBatch == InitBatch /\ [][NextBatch]_vars

(***************************************************************************)
(* The pure functions of the imager, each called twice on one input:       *)
(* input holds the function's name and arguments, result the values the    *)
(* calls returned                                                          *)
(***************************************************************************)
\* the list is returned as it is
deduplicateNodeIDsNone(nodeIDs) == nodeIDs

\* types.go:290-302: the IDs in the order of the list, an ID that was seen
\* before is skipped
RECURSIVE deduplicateNodeIDs(_)
deduplicateNodeIDs(nodeIDs) ==
  IF nodeIDs = <<>> THEN <<>>
  ELSE LET front == SubSeq(nodeIDs, 1, Len(nodeIDs) - 1)
           seen == Elems(front)
           result0 == deduplicateNodeIDs(front)
           id == nodeIDs[Len(nodeIDs)]
       IN IF id \in seen THEN result0 ELSE Append(result0, id)

\* the fills a node of the sample trees can have
SampleFills ==
  {NoFills,
   <<Paint("IMAGE", <<"r","1">>)>>,
   <<Paint("IMAGE", <<>>)>>,
   <<Paint("SOLID", <<>>), Paint("IMAGE", <<"r","2">>)>>,
   <<Paint("IMAGE", <<"r","1">>), Paint("IMAGE", <<"r","2">>)>>,
   <<Paint("IMAGE", <<>>), Paint("IMAGE", <<"r","2">>)>>}

\* root > (mid > leaf), side; every node with or without export settings
SampleTrees ==
  {Node(<<"0",":","1">>, <<"R">>, er, fr, <<
     Node(<<"0",":","2">>, <<"M">>, em, fm, <<
       Leaf(<<"0",":","3">>, <<"L">>, el, fl)>>),
     Leaf(<<"0",":","4">>, <<"S">>, 2, <<Paint("IMAGE", <<"r","3">>)>>)>>) :
   er \in {0, 1}, em \in {0, 1}, el \in {0, 1},
   fr \in SampleFills, fm \in SampleFills, fl \in SampleFills}

InitFn ==
  /\ input \in [fn : {"CollectImageFillNodes", "CollectExportableNodes"},
                 root : SampleTrees]
          \cup [fn : {"detectExtensionFromURL"}, rawURL :
                   {<<>>,
                    <<"/","a">>,
                    <<"/","a",".","p","n","g">>,
                    <<"/","b",".","j","p","g","?","t">>,
                    <<"/","a","/","b",".">>,
                    <<"/","a",".","b","/","c">>,
                    <<"h",":","/","/","x","/","y",".","g","i","f","?","x","=","1",".","p","n","g">>,
                    <<"h",":","/","/","x">>,
                    <<"/","c",".","P","N","G","#","f",".","x">>,
                    <<":","a",".","p","n","g">>,
                    <<"a",".","b">>,
                    <<"/","d",".","t","a","r",".","g","z">>,
                    <<".">>,
                    <<"/","e",".","w","e","b","p","?">>}]
          \cup [fn : {"buildFileName"}, nodeName :
                   {<<>>,
                    <<"I","c","o","n">>,
                    <<"m","y"," ","i","c","o","n">>,
                    <<"A","_","b">>,
                    <<"#","!">>,
                    <<"x",".","y","/","z">>,
                    <<"-","-">>,
                    <<"9">>},
                 nodeID : {<<"1",":","2">>, <<":">>},
                 format : {png, jpg, svg, pdf}, scale : {1, 2, 3}]
          \cup [fn : {"deduplicateNodeIDs"},
                 nodeIDs : UNION {[1..n -> {<<"1",":","1">>, <<"1",":","2">>,
                                            <<"2",":","1">>}] : n \in 0..MaxIDs}]
  /\ pc = "fn"
  /\ screenshotNodes = EmptyMap
  /\ unresolvedNodes = <<>>
  /\ ExportedAssets = <<>>
  /\ ret = "running"
  /\ files = EmptyMap
  /\ calls = <<>>
  /\ phaseLog = <<>>
  /\ idx = 0
  /\ log = <<>>
  /\ faults = 0
  /\ call = NoCall
  /\ cpc = "idle"
  /\ callErr = ""
  /\ result = <<>>
  /\ usedNames = EmptyMap
  /\ pending = EmptyMap
  /\ gor = [k \in {} |-> 0]
  /\ sem = 0
  /\ mu = {}
  /\ wg = 0

\* one call returns: its value is appended to result
Returned(value) ==
  /\ pc = "fn"
  /\ Len(result) < 2
  /\ result' = Append(result, value)
  /\ UNCHANGED <<input, pc, screenshotNodes, unresolvedNodes, ExportedAssets, ret,
                 files, calls, phaseLog, idx, log, faults, call, cpc, callErr,
                 usedNames, pending, gor, sem, mu, wg>>

CallCollectImageFillNodes ==
  /\ input.fn = "CollectImageFillNodes"
  /\ Returned(CollectImageFillNodes(input.root))

CallCollectExportableNodes ==
  /\ input.fn = "CollectExportableNodes"
  /\ Returned(CollectExportableNodes(input.root))

CallDetectExtensionFromURL ==
  /\ input.fn = "detectExtensionFromURL"
  /\ Returned(detectExtensionFromURL(input.rawURL))

CallBuildFileName ==
  /\ input.fn = "buildFileName"
  /\ Returned(buildFileName(input.nodeName, input.nodeID, input.format, input.scale))

\* the second call is made on what the first call returned
CallDeduplicateNodeIDs ==
  /\ input.fn = "deduplicateNodeIDs"
  /\ Returned(deduplicateNodeIDs(IF result = <<>> THEN input.nodeIDs
                                  ELSE result[1]))

NextFn ==
  \/ CallCollectImageFillNodes
  \/ CallCollectExportableNodes
  \/ CallDetectExtensionFromURL
  \/ CallBuildFileName
  \/ CallDeduplicateNodeIDs

SpecFn == InitFn /\ [][NextFn]_vars

(***************************************************************************)
(* Properties of the export pipeline                                       *)
(***************************************************************************)
Finished == pc = "done" /\ ret = "nil"

Done(k) == gor[k].pc = "done"

Failed(k) == gor[k].dl \in {"http", "copy"}

\* the asset record a was appended by goroutine k
AppendedBy(a, k) ==
  /\ a.NodeID = gor[k].nID
  /\ a.NodeName = gor[k].nodeName
  /\ a.FileName = gor[k].fileName
  /\ a.Scale = gor[k].scale

\* the positions of sequence s that satisfy Test
Positions(s, Test(_)) == {i \in DOMAIN s : Test(s[i])}

IsDownloadError(e) == e.kind = "download"

\* the render calls of the ExportImages call in progress that succeeded
BatchCalls ==
  {i \in DOMAIN calls : /\ calls[i].api = "GetImages"
                        /\ calls[i].phase = call.phase
                        /\ calls[i].ok}

\* the entries of those responses that carry a URL, and those that carry none
WithURL ==
  UNION {{<<i, id>> : id \in {x \in DOMAIN calls[i].resp : calls[i].resp[x] # <<>>}} :
           i \in BatchCalls}

EmptyURL ==
  UNION {{<<i, id>> : id \in {x \in DOMAIN calls[i].resp : calls[i].resp[x] = <<>>}} :
           i \in BatchCalls}

\* C1: when the run has returned without error, no two entries of the final
\* manifest carry the same file name, whatever phases produced them and even
\* when distinct nodes normalize to the same base name
C1_FileNamesPairwiseDistinct ==
  Finished =>
    \A i, j \in DOMAIN ExportedAssets :
      i # j => ExportedAssets[i].FileName # ExportedAssets[j].FileName

\* C2: while a call runs without a call-level error, its asset list holds
\* exactly one asset per goroutine whose transfer succeeded and that has
\* appended, its error list exactly one download error per goroutine whose
\* transfer failed, a failed goroutine has no asset, and when the call returns
\* every goroutine that was spawned has run its transfer to an outcome
C2_AssetOnlyAfterSuccessfulDownload ==
  (call.fn # "none" /\ callErr = "") =>
    /\ \A i \in DOMAIN result.Assets :
         \E k \in DOMAIN gor : Done(k) /\ gor[k].dl = "ok" /\ AppendedBy(result.Assets[i], k)
    /\ Len(result.Assets) = Cardinality({k \in DOMAIN gor : Done(k) /\ gor[k].dl = "ok"})
    /\ Cardinality(Positions(result.Errors, IsDownloadError))
         = Cardinality({k \in DOMAIN gor : Done(k) /\ Failed(k)})
    /\ \A k \in DOMAIN gor :
         (Done(k) /\ Failed(k)) =>
           /\ \E i \in DOMAIN result.Errors :
                result.Errors[i] = DownloadError(gor[k].nodeName, gor[k].dl)
           /\ \A i \in DOMAIN result.Assets : ~AppendedBy(result.Assets[i], k)
    /\ cpc = "ret" =>
         /\ \A k \in DOMAIN gor : Done(k) /\ gor[k].dl \in {"ok", "http", "copy"}
         /\ call.fn = "ExportImages" => Cardinality(DOMAIN gor) = Cardinality(WithURL)
         /\ call.fn = "ExportImageFills" =>
              Cardinality(DOMAIN gor)
                = Cardinality({i \in DOMAIN call.fills :
                                 HasDownloadURL(call.images, call.fills[i])})

\* a call has returned in which one transfer of a batch failed and another
\* transfer of the same batch succeeded
C2_Witness ==
  /\ cpc = "ret"
  /\ callErr = ""
  /\ \E k1, k2 \in DOMAIN gor :
       /\ call.fn = "ExportImages" => k1.s = k2.s
       /\ Failed(k1)
       /\ gor[k2].dl = "ok"
       /\ \E i \in DOMAIN result.Assets : AppendedBy(result.Assets[i], k2)

\* C3: partial failure is success: when the render call for the export-flagged
\* nodes returns without a call-level error, its result holds one asset per
\* transfer that succeeded and one error record per entry with an empty URL and
\* per transfer that failed; and the run ends with a top-level error only when
\* a call itself returned an error, never because of such records
C3_PartialFailureIsSuccess ==
  /\ (call.phase = "ExportFlagged" /\ cpc = "ret" /\ callErr = "") =>
       /\ Cardinality(DOMAIN gor) = Cardinality(WithURL)
       /\ Len(result.Assets) = Cardinality({k \in DOMAIN gor : gor[k].dl = "ok"})
       /\ Len(result.Errors)
            = Cardinality(EmptyURL) + Cardinality({k \in DOMAIN gor : Failed(k)})
       /\ ret \in {"running", "nil"}
  /\ ret \in {"running", "nil", "export images", "export image fills"}
  /\ ret = "export images" => (call.phase = "ExportFlagged" /\ callErr # "")
  /\ ret = "export image fills" => (call.phase = "EmbeddedFills" /\ callErr # "")

\* the run has returned nil although, of three export-flagged nodes, one came
\* back with an empty URL and the transfer of another failed; the third is in
\* the manifest
C3_Witness ==
  /\ Finished
  /\ call.phase = "ExportFlagged"
  /\ Cardinality(EmptyURL) = 1
  /\ \E k \in DOMAIN gor : Failed(k)
  /\ \E k \in DOMAIN gor :
       /\ gor[k].dl = "ok"
       /\ \E i \in DOMAIN ExportedAssets :
            ~ExportedAssets[i].IsScreenshot /\ AppendedBy(ExportedAssets[i], k)
  /\ Len(result.Assets) = 1
  /\ Len(result.Errors) = 2

\* the node IDs requested in a successful render call, and those of them whose
\* URL is empty or absent in the response
Requested ==
  UNION {{<<i, id>> : id \in calls[i].ids} : i \in BatchCalls}

WithoutURL ==
  UNION {{<<i, id>> : id \in {x \in calls[i].ids :
                                IF x \in DOMAIN calls[i].resp
                                THEN calls[i].resp[x] = <<>> ELSE TRUE}} :
           i \in BatchCalls}

\* C4: when ExportImages returns without a call-level error, every node ID
\* requested in a successful batch whose URL was empty or absent has exactly
\* one "no image URL" record per such batch, so that every requested node and
\* scale ends as exactly one asset or one error record; and a batch that
\* returned successfully is never treated as failed
C4_EmptyOrAbsentURLYieldsOneError ==
  /\ (call.fn = "ExportImages" /\ cpc = "ret" /\ callErr = "") =>
       /\ \A id \in DOMAIN call.nodes :
            Cardinality({i \in DOMAIN result.Errors : result.Errors[i] = NoURLError(id)})
              = Cardinality({p \in WithoutURL : p[2] = id})
       /\ Len(result.Assets) + Len(result.Errors) = Cardinality(Requested)
  /\ (call.fn = "ExportImages" /\ callErr = "get_images") =>
       (calls # <<>> /\ ~calls[Len(calls)].ok)

\* the names of the nodes of the screenshot set
ScreenshotNames == {screenshotNodes[id] : id \in DOMAIN screenshotNodes}

\* a regular (non-screenshot) manifest entry that matches the screenshot set
MatchesScreenshotSet(a) ==
  /\ ~a.IsScreenshot
  /\ (a.NodeID \in DOMAIN screenshotNodes \/ a.NodeName \in ScreenshotNames)

\* C5: after reconciliation the manifest holds no non-screenshot asset whose
\* node ID or node name matches an entry of the screenshot set, hence no node
\* of the set is both a screenshot and a regular asset; and the step that
\* removes such assets leaves none of their files in the output directory
C5_NoRegularAssetOfScreenshotNode ==
  /\ [](Finished =>
          /\ \A i \in DOMAIN ExportedAssets : ~MatchesScreenshotSet(ExportedAssets[i])
          /\ \A i, j \in DOMAIN ExportedAssets :
               (ExportedAssets[i].IsScreenshot /\ ~ExportedAssets[j].IsScreenshot)
                 => ExportedAssets[i].NodeID # ExportedAssets[j].NodeID)
  /\ [][(pc = "reconcile" /\ pc' = "done") =>
          \A i \in DOMAIN ExportedAssets :
            MatchesScreenshotSet(ExportedAssets[i])
              => ExportedAssets[i].FileName \notin DOMAIN files']_vars

\* the run has ended after the last phase downloaded an asset for a node that
\* is outside the screenshot set but carries the name of one of its nodes: the
\* asset is gone from the manifest and its file from the output directory,
\* while the screenshot is there
C5_Witness ==
  /\ Finished
  /\ call.phase # "Screenshot"
  /\ \E i \in DOMAIN ExportedAssets : ExportedAssets[i].IsScreenshot
  /\ \E i \in DOMAIN result.Assets :
       /\ result.Assets[i].NodeID \notin DOMAIN screenshotNodes
       /\ result.Assets[i].NodeName \in ScreenshotNames
       /\ result.Assets[i].FileName \notin DOMAIN files
       /\ \A j \in DOMAIN ExportedAssets :
            ExportedAssets[j].NodeID # result.Assets[i].NodeID

\* the image-fill nodes Phase 2 works on and the successful bulk responses
FillNodes == AllImageFills(input, screenshotNodes)

BulkResponses ==
  {calls[i].resp : i \in {j \in DOMAIN calls : calls[j].api = "GetFileImages"
                                                /\ calls[j].ok}}

\* the bulk response resp has no URL for the fill node
Omitted(resp, fill) ==
  IF fill.ImageRef \in DOMAIN resp THEN resp[fill.ImageRef] = <<>> ELSE TRUE

\* every fill node the successful bulk response left without a URL is among
\* the nodes of the fallback render call
HandedToFallback ==
  \A resp \in BulkResponses : \A j \in DOMAIN FillNodes :
    Omitted(resp, FillNodes[j]) =>
      /\ call.phase = "RenderFallback"
      /\ FillNodes[j].NodeID \in DOMAIN call.nodes
      /\ call.nodes[FillNodes[j].NodeID] = FillNodes[j].NodeName

\* goroutine k of the fallback call has its asset in the manifest
InManifest(k) ==
  \E i \in DOMAIN ExportedAssets :
    ~ExportedAssets[i].IsScreenshot /\ AppendedBy(ExportedAssets[i], k)

\* the run with three fill nodes in which nothing went wrong but one image ref
\* the bulk response left out
OneOfThreeOmitted ==
  /\ input = ThreeFills
  /\ faults = 1
  /\ \E resp \in BulkResponses :
       Cardinality({j \in DOMAIN FillNodes : Omitted(resp, FillNodes[j])}) = 1

RegularAssetsOf(nodeID) ==
  {i \in DOMAIN ExportedAssets :
     ~ExportedAssets[i].IsScreenshot /\ ExportedAssets[i].NodeID = nodeID}

\* C6 as stated: in a run that returns its manifest, every fill node without a
\* URL in a successful bulk response is handed to the render fallback, and
\* every node whose fallback render and download succeeded is in the final
\* manifest
C6_FallbackAssetInManifest ==
  Finished =>
    /\ HandedToFallback
    /\ (call.phase = "RenderFallback" /\ callErr = "") =>
         \A k \in DOMAIN gor : gor[k].dl = "ok" => InManifest(k)

\* C6, amended: as above, except that a node rendered by the fallback is in
\* the final manifest only when its name is not the name of a node of the
\* screenshot set (Phase 3 removes it otherwise); with three fill nodes of
\* such names, two resolved by the bulk response and the third rendered by the
\* fallback at one scale, the manifest holds one asset for each of the three
C6_FallbackAssetInManifestUnlessScreenshotName ==
  Finished =>
    /\ HandedToFallback
    /\ (call.phase = "RenderFallback" /\ callErr = "") =>
         \A k \in DOMAIN gor :
           (gor[k].dl = "ok" /\ gor[k].nodeName \notin ScreenshotNames) => InManifest(k)
    /\ OneOfThreeOmitted =>
         /\ \A j \in DOMAIN FillNodes :
              Cardinality(RegularAssetsOf(FillNodes[j].NodeID)) = 1
         /\ Cardinality({i \in DOMAIN ExportedAssets : ~ExportedAssets[i].IsScreenshot}) = 3

\* the run with three fill nodes has ended: the bulk response resolved two, the
\* fallback rendered and downloaded the third, and the manifest holds it
C6_Witness ==
  /\ Finished
  /\ OneOfThreeOmitted
  /\ call.phase = "RenderFallback"
  /\ callErr = ""
  /\ Cardinality(DOMAIN gor) = 1
  /\ \A k \in DOMAIN gor : gor[k].dl = "ok" /\ InManifest(k)

\* the goroutines whose downloadFile transfer is in progress
InTransfer == {k \in DOMAIN gor : gor[k].pc = "dl"}

\* C7: at every moment of an ExportImages or ExportImageFills call at most
\* maxParallelDownloads transfers are in progress, however many nodes the batch
\* or the fill set holds
C7_AtMostFiveTransfers ==
  /\ Cardinality(InTransfer) <= maxParallelDownloads
  /\ sem <= maxParallelDownloads

\* maxParallelDownloads transfers are in progress while one more goroutine of
\* the same call waits for the semaphore
C7_Witness ==
  /\ Cardinality(InTransfer) = maxParallelDownloads
  /\ \E k \in DOMAIN gor : gor[k].pc = "sem"

\* who is inside a critical section of the batch mutex: a goroutine between
\* its mu.Lock() and mu.Unlock(), or the calling goroutine recording a missing
\* URL
InCriticalSection ==
  {k \in DOMAIN gor : gor[k].pc \in {"check", "register", "err", "asset"}}
    \cup (IF cpc = "range_cs" THEN {MainKey} ELSE {})

MutualExclusion == Cardinality(InCriticalSection) <= 1 /\ mu = InCriticalSection

\* the goroutines of ExportImages that have read the registry
HasObserved(k) ==
  gor[k].pc \in {"register", "dl", "lockErr", "err", "lockAsset", "asset", "done"}

Candidate(k) == buildFileName(gor[k].nodeName, gor[k].nID, call.Format, gor[k].scale)

\* no two goroutines of a call both found the same candidate name unused
NoSharedUnusedCandidate ==
  call.fn = "ExportImages" =>
    \A k1, k2 \in DOMAIN gor :
      (k1 # k2 /\ HasObserved(k1) /\ HasObserved(k2)
         /\ gor[k1].seen = 0 /\ gor[k2].seen = 0)
        => Candidate(k1) # Candidate(k2)

Running == \E k \in DOMAIN gor : ~Done(k)

\* the step is taken by the holder of the mutex, who unlocks at its end
ByMutexHolder == mu # {} /\ mu' = {}

Appends ==
  \/ Len(result'.Assets) > Len(result.Assets)
  \/ Len(result'.Errors) > Len(result.Errors)

\* C8 as stated: every write of the collision registry made while download
\* goroutines run, and every append to the asset or error list, is made by
\* the holder of the batch mutex; no two goroutines are in a critical section
\* together and no two both see the same candidate name as unused
C8_RegistryAndListsUnderMutex ==
  /\ [](MutualExclusion /\ NoSharedUnusedCandidate)
  /\ [][/\ (usedNames' # usedNames /\ Running) => ByMutexHolder
        /\ Appends => ByMutexHolder]_vars

\* C8, amended: in ExportImages every write of the registry made while
\* goroutines run is made by the holder of the batch mutex; in ExportImageFills
\* the registry is written by the calling goroutine alone, in its loop and
\* without the mutex, so its check-then-register is still serialized; in both,
\* every append to the asset or error list is made by the holder of the mutex,
\* no two goroutines are in a critical section together and no two both see
\* the same candidate name as unused
C8_RegistrySerialized ==
  /\ [](MutualExclusion /\ NoSharedUnusedCandidate)
  /\ [][/\ (usedNames' # usedNames /\ Running /\ call.fn = "ExportImages")
             => ByMutexHolder
        /\ (usedNames' # usedNames /\ Running /\ call.fn = "ExportImageFills")
             => (call'.fi = call.fi + 1 /\ mu' = mu
                   /\ \A k \in DOMAIN gor : gor'[k] = gor[k])
        /\ Appends => ByMutexHolder]_vars

\* a goroutine is inside the registry's critical section while another one,
\* whose candidate name is the same, waits for the mutex
C8_Witness ==
  /\ call.fn = "ExportImages"
  /\ \E k1, k2 \in DOMAIN gor :
       /\ k1 # k2
       /\ gor[k1].pc = "check"
       /\ gor[k2].pc = "lockName"
       /\ Candidate(k1) = Candidate(k2)
       /\ mu = {k1}

AllJoined ==
  /\ \A k \in DOMAIN gor : Done(k)
  /\ wg = 0
  /\ sem = 0
  /\ mu = {}

\* C9: no download task outlives its call: when ExportImages or
\* ExportImageFills has returned (with its result or with a render error), and
\* whenever ExportImages is about to issue a GetImages call, every goroutine
\* the call spawned has finished; after the return the call's result is not
\* written any more and the output directory changes only by the pipeline's
\* own rename and reconciliation steps
C9_NoTaskOutlivesItsCall ==
  /\ [](cpc \in {"idle", "batch", "ret"} => AllJoined)
  /\ [][(cpc = "ret" /\ cpc' = "ret" /\ call' = call) =>
          /\ result' = result
          /\ files' # files => pc \in {"rename", "reconcile"}]_vars

\* ExportImages has returned a render error at its second scale, after the
\* goroutines of the first scale downloaded their files
C9_Witness ==
  /\ cpc = "ret"
  /\ callErr = "get_images"
  /\ DOMAIN gor # {}
  /\ \E k \in DOMAIN gor : gor[k].dl = "ok" /\ gor[k].fileName \in DOMAIN files
  /\ call.si = 2

PhaseRank(p) ==
  CASE p = "Screenshot" -> 1
    [] p = "ExportFlagged" -> 2
    [] p = "EmbeddedFills" -> 3
    [] p = "RenderFallback" -> 4
    [] p = "Reconcile" -> 5

\* C10: the phases that start do so in the order Screenshot, ExportFlagged,
\* EmbeddedFills, RenderFallback, Reconcile and none starts twice; a phase
\* starts only when no call of an earlier phase is in progress and all its
\* goroutines have finished; a call in progress belongs to the phase that
\* started last
C10_PhasesInOrder ==
  /\ [](/\ \A i, j \in DOMAIN phaseLog :
             i < j => PhaseRank(phaseLog[i]) < PhaseRank(phaseLog[j])
        /\ cpc \notin {"idle", "ret"} => call.phase = phaseLog[Len(phaseLog)]
        /\ pc = "done" => AllJoined)
  /\ [][phaseLog' # phaseLog =>
          /\ cpc \in {"idle", "ret"}
          /\ AllJoined
          /\ Len(phaseLog') = Len(phaseLog) + 1
          /\ SubSeq(phaseLog', 1, Len(phaseLog)) = phaseLog]_vars

\* a run has gone through all five phases
C10_Witness ==
  /\ Finished
  /\ phaseLog = <<"Screenshot", "ExportFlagged", "EmbeddedFills", "RenderFallback",
                  "Reconcile">>
  /\ \E i \in DOMAIN calls : calls[i].phase = "RenderFallback" /\ calls[i].ok

LastPhase == IF phaseLog = <<>> THEN "none" ELSE phaseLog[Len(phaseLog)]

\* the run ended with the error of the imager call that was in progress
EndedByCallError ==
  \/ ret = "export images" /\ call.phase = "ExportFlagged" /\ callErr # ""
  \/ ret = "export image fills" /\ call.phase = "EmbeddedFills" /\ callErr # ""

\* the order in which the pipeline goes through its phases
PhaseSteps ==
  {<<"start", "screenshot">>, <<"screenshot", "rename">>, <<"screenshot", "phase1">>,
   <<"rename", "phase1">>, <<"phase1", "phase1_call">>, <<"phase1", "phase2">>,
   <<"phase1_call", "phase2">>, <<"phase2", "phase2_call">>, <<"phase2", "fallback">>,
   <<"phase2", "reconcile">>, <<"phase2_call", "fallback">>,
   <<"fallback", "fallback_call">>, <<"fallback", "reconcile">>,
   <<"fallback_call", "reconcile">>, <<"reconcile", "done">>}

\* C11 as stated: whatever fails inside a phase, the run is at Done only
\* through Reconcile and with a nil error
C11_EveryRunReachesReconcile ==
  pc = "done" => (ret = "nil" /\ LastPhase = "Reconcile")

\* C11, amended: a failure inside a phase leaves the phase's contribution
\* empty or partial and the run goes on to the next phase, so that it is at
\* Done through Reconcile with a nil error, unless the Phase 1 ExportImages
\* call or the Phase 2 ExportImageFills call itself returned an error, which
\* ends the run at once with that error
C11_RunReachesReconcileUnlessCallFatal ==
  /\ [](/\ pc = "done" =>
             \/ ret = "nil" /\ LastPhase = "Reconcile"
             \/ EndedByCallError
        /\ EndedByCallError => (pc = "done" /\ LastPhase = call.phase)
        /\ ret = "running" => pc # "done"
        /\ (callErr # "" /\ call.phase \in {"Screenshot", "RenderFallback"})
             => ret \in {"running", "nil"})
  /\ [][pc' # pc =>
          \/ <<pc, pc'>> \in PhaseSteps
          \/ /\ pc \in {"phase1_call", "phase2_call"}
             /\ callErr # ""
             /\ pc' = "done"]_vars

\* a run has returned nil through Reconcile although its bulk call and its
\* fallback render both failed
C11_Witness ==
  /\ Finished
  /\ LastPhase = "Reconcile"
  /\ call.phase = "RenderFallback"
  /\ callErr # ""
  /\ \E i \in DOMAIN calls : calls[i].api = "GetFileImages" /\ ~calls[i].ok

\* C12: a GetImages error during Phase 1 is fatal: once the Phase 1 call has
\* returned it, the pipeline returns the wrapped error "export images" at
\* once, adds nothing to the manifest and starts no later phase
C12_Phase1RenderErrorIsFatal ==
  /\ [](/\ (call.phase = "ExportFlagged" /\ callErr = "get_images"
              /\ pc # "phase1_call")
             => (pc = "done" /\ ret = "export images" /\ LastPhase = "ExportFlagged")
        /\ ret = "export images" => LastPhase = "ExportFlagged")
  /\ [][(pc = "phase1_call" /\ cpc = "ret" /\ callErr = "get_images" /\ pc' # pc)
          => /\ pc' = "done"
             /\ ret' = "export images"
             /\ phaseLog' = phaseLog
             /\ ExportedAssets' = ExportedAssets]_vars

\* the run stopped with the error of Phase 1's render call, after the
\* screenshot had been stored
C12_Witness ==
  /\ pc = "done"
  /\ ret = "export images"
  /\ callErr = "get_images"
  /\ call.phase = "ExportFlagged"
  /\ \E i \in DOMAIN ExportedAssets : ExportedAssets[i].IsScreenshot

ScreenshotFailed ==
  \E i \in DOMAIN log : \E cause \in {"mkdir", "get_images"} :
    log[i] = Warn(CallFailed("Screenshot failed", cause))

\* C13: when the screenshot render fails as a whole the run is not aborted:
\* the failure is logged, the manifest never gets a screenshot asset, and the
\* pipeline goes on to Phase 1
C13_ScreenshotFailureIsNotFatal ==
  /\ [](ScreenshotFailed =>
          /\ \A i \in DOMAIN ExportedAssets : ~ExportedAssets[i].IsScreenshot
          /\ pc \notin {"start", "screenshot", "rename"})
  /\ [][(pc = "screenshot" /\ callErr # "" /\ pc' # pc)
          => /\ pc' = "phase1"
             /\ ret' = "running"
             /\ ExportedAssets' = <<>>
             /\ ScreenshotFailed']_vars

\* the run has returned nil with assets of Phase 1 and no screenshot, after
\* the screenshot render failed
C13_Witness ==
  /\ Finished
  /\ ScreenshotFailed
  /\ \E i \in DOMAIN phaseLog : phaseLog[i] = "ExportFlagged"
  /\ ExportedAssets # <<>>

BulkFailed ==
  \E i \in DOMAIN calls : calls[i].api = "GetFileImages" /\ ~calls[i].ok

\* C14: when GetFileImages returns an error, ExportImageFills is not called
\* and no file is downloaded from a file-images URL, the whole collected fill
\* set becomes the unresolved set and is handed to the render fallback, and
\* the run does not end with an error
C14_BulkFailureMakesAllUnresolved ==
  BulkFailed =>
    /\ unresolvedNodes = FillNodes
    /\ call.phase # "EmbeddedFills"
    /\ \A f \in DOMAIN files :
         \A r \in DOMAIN input.fileImages : files[f].src # input.fileImages[r]
    /\ ret \in {"running", "nil"}
    /\ pc \in {"fallback", "fallback_call", "reconcile", "done"}
    /\ pc # "fallback" =>
         /\ call.phase = "RenderFallback"
         /\ DOMAIN call.nodes = {FillNodes[j].NodeID : j \in DOMAIN FillNodes}

\* after a failed bulk call the fallback has rendered and downloaded all three
\* fill nodes and the run has returned nil
C14_Witness ==
  /\ Finished
  /\ BulkFailed
  /\ Len(FillNodes) = 3
  /\ callErr = ""
  /\ \A j \in DOMAIN FillNodes :
       Cardinality(RegularAssetsOf(FillNodes[j].NodeID)) = 1

\* C15: a failed fallback render is never fatal: the pipeline logs it, keeps
\* the manifest and the files as they are, goes on to reconciliation and
\* returns nil
C15_FallbackFailureIsNotFatal ==
  /\ []((call.phase = "RenderFallback" /\ callErr # "") =>
          /\ ret \in {"running", "nil"}
          /\ pc = "done" => (ret = "nil" /\ LastPhase = "Reconcile"))
  /\ [][(pc = "fallback_call" /\ callErr # "" /\ pc' # pc)
          => /\ pc' = "reconcile"
             /\ ret' = "running"
             /\ ExportedAssets' = ExportedAssets
             /\ files' = files]_vars

\* the run has returned nil after a failed fallback render, and the manifest
\* still holds an embedded image that Phase 2 downloaded
C15_Witness ==
  /\ Finished
  /\ call.phase = "RenderFallback"
  /\ callErr # ""
  /\ \E i \in DOMAIN ExportedAssets :
       /\ ~ExportedAssets[i].IsScreenshot
       /\ ExportedAssets[i].FileName \in DOMAIN files
       /\ \E r \in DOMAIN input.fileImages :
            files[ExportedAssets[i].FileName].src = input.fileImages[r]

RenderCallsOf(phase) ==
  {i \in DOMAIN calls : calls[i].api = "GetImages" /\ calls[i].phase = phase}

\* C16: for SVG and PDF the imager renders at scale 1 only, whatever scales
\* were requested: every GetImages call asks for scale 1, a call over one batch
\* of nodes makes one GetImages call, every asset has Scale 1 and no file name
\* carries an "@" scale suffix
C16_VectorsRenderOnceAtScaleOne ==
  IsVector(input.opts.ImageFormat) =>
    /\ \A i \in DOMAIN calls : calls[i].api = "GetImages" => calls[i].scale = 1
    /\ \A i \in DOMAIN calls : Cardinality(RenderCallsOf(calls[i].phase)) = 1
    /\ call.fn = "ExportImages" => Elems(call.scales) \subseteq {1}
    /\ (call.fn = "ExportImages" /\ cpc = "ret" /\ callErr = ""
          /\ DOMAIN call.nodes # {})
         => Cardinality(RenderCallsOf(call.phase)) = 1
    /\ \A i \in DOMAIN result.Assets :
         result.Assets[i].Scale = 1 /\ "@" \notin Elems(result.Assets[i].FileName)
    /\ \A i \in DOMAIN ExportedAssets :
         ExportedAssets[i].Scale = 1 /\ "@" \notin Elems(ExportedAssets[i].FileName)
    /\ \A f \in DOMAIN files : "@" \notin Elems(f)

\* an SVG run that asked for scales 1, 2 and 3 has finished with both
\* export-flagged nodes in the manifest after one render call for them
C16_Witness ==
  /\ Finished
  /\ input.opts.ImageFormat = svg
  /\ input.opts.ImageScales = <<1, 2, 3>>
  /\ Cardinality({i \in DOMAIN ExportedAssets : ~ExportedAssets[i].IsScreenshot}) = 2
  /\ \E i \in RenderCallsOf("ExportFlagged") : calls[i].ok

\* C17: no GetImages call of Phase 1 asks for a node of the screenshot set,
\* in node mode and in whole-file mode
C17_Phase1SkipsScreenshotSet ==
  \A i \in RenderCallsOf("ExportFlagged") :
    calls[i].ids \cap DOMAIN screenshotNodes = {}

\* C18: the manifest of a finished run holds at most one asset that is not a
\* screenshot per node ID, format and scale, also when a node is reachable
\* from two fetched roots
C18_OneRegularAssetPerNodeFormatScale ==
  Finished =>
    \A i, j \in DOMAIN ExportedAssets :
      (/\ ~ExportedAssets[i].IsScreenshot
       /\ ~ExportedAssets[j].IsScreenshot
       /\ ExportedAssets[i].NodeID = ExportedAssets[j].NodeID
       /\ ExportedAssets[i].Format = ExportedAssets[j].Format
       /\ ExportedAssets[i].Scale = ExportedAssets[j].Scale)
      => i = j

\* the URLs an asset of the manifest can have been downloaded from: the render
\* of its node at its format and scale, or the embedded image of its node
SourcesOf(a) ==
  {RenderURL(a.NodeID, a.Format, a.Scale)}
    \cup {input.fileImages[FillNodes[j].ImageRef] :
            j \in {k \in DOMAIN FillNodes :
                     /\ FillNodes[k].NodeID = a.NodeID
                     /\ FillNodes[k].ImageRef \in DOMAIN input.fileImages}}

\* C19: when the run is done, every asset of the manifest has a file under its
\* file name and the file holds the complete bytes downloaded for that asset
C19_EveryAssetHasItsOwnFile ==
  Finished =>
    \A i \in DOMAIN ExportedAssets :
      LET a == ExportedAssets[i]
      IN /\ a.FileName \in DOMAIN files
         /\ \E u \in SourcesOf(a) : files[a.FileName] = FullBody(u)

\* C20: with the same tree, options and remote answers, the image found at
\* complete_design_screenshot.{format} after a successful Phase 0 is the same
\* in every run: the second run stores the image the first run stored
C20_ScreenshotImageIsDeterministic ==
  (/\ pc = "phase1"
   /\ log # <<>>
   /\ screenshotName(input.opts.ImageFormat) \in DOMAIN files)
  => files[screenshotName(input.opts.ImageFormat)] = log[1].what

\* C21: Phase 0 renders the screenshot set at scale 1 only, whatever scales
\* the caller asked for, and every screenshot asset of the manifest has Scale 1
C21_ScreenshotAtScaleOne ==
  /\ \A i \in RenderCallsOf("Screenshot") : calls[i].scale = 1
  /\ (call.fn = "ExportImages" /\ call.phase = "Screenshot")
       => Elems(call.scales) \subseteq {1}
  /\ \A i \in DOMAIN ExportedAssets :
       ExportedAssets[i].IsScreenshot => ExportedAssets[i].Scale = 1

\* a run that asked for two scales has finished with a screenshot in its
\* manifest after a render call of a later phase at scale 2
C21_Witness ==
  /\ Finished
  /\ input.opts.ImageScales = <<1, 2>>
  /\ \E i \in DOMAIN ExportedAssets : ExportedAssets[i].IsScreenshot
  /\ \E i \in DOMAIN calls : calls[i].api = "GetImages" /\ calls[i].scale = 2
  /\ \E i \in RenderCallsOf("Screenshot") : calls[i].ok

\* C22: a run whose image format is not one of png, svg, jpg and pdf issues
\* no network call: it is rejected before the first one
C22_BadFormatRejectedBeforeAnyCall ==
  input.opts.ImageFormat \notin validFormats => calls = <<>>

\* the error list of a result, if the result has one
ErrorList(res) == IF "Errors" \in DOMAIN res THEN res.Errors ELSE <<>>

\* the per-asset failures recorded by the imager call that returned last
SoftFailures ==
  {e \in Elems(result.Errors) : e.kind \in {"no_url", "download"}}

\* C25: every per-asset failure that a phase recorded is in the error list of
\* the result that Run hands back, with or without a Logger
C25_SoftFailuresInResult ==
  Finished => SoftFailures \subseteq Elems(ErrorList(RunResult))

\* an outcome of an HTTP attempt after which the client may try again: the
\* transport failed, the body could not be read, or the status is 429 or 5xx
Transient(o) ==
  \/ o.transport
  \/ o.status = 429
  \/ o.status >= 500
  \/ o.status = 200 /\ o.body = "unreadable"

HttpAttempts == {i \in DOMAIN calls : calls[i].ev = "http"}

\* C23: a call makes at most three HTTP attempts; an attempt is followed by
\* another one only after a transient outcome and a sleep of 2 s after the
\* first and 4 s after the second attempt; any other outcome ends the call at
\* that attempt; an error is returned only at such an outcome, after the third
\* failed attempt, or, without any attempt, for an empty list of node IDs
C23_AtMostThreeAttemptsWithBackoff ==
  /\ Cardinality(HttpAttempts) <= 3
  /\ \A i \in HttpAttempts :
       /\ calls[i].attempt = Cardinality({j \in HttpAttempts : j <= i})
       /\ i < Len(calls) =>
            /\ Transient(calls[i].outcome)
            /\ calls[i + 1].ev = "sleep"
            /\ calls[i + 1].seconds = (IF calls[i].attempt = 1 THEN 2 ELSE 4)
       /\ ~Transient(calls[i].outcome) => (i = Len(calls) /\ cpc = "returned")
  /\ \A i \in DOMAIN calls \ HttpAttempts :
       /\ i > 1
       /\ calls[i - 1].ev = "http"
       /\ i < Len(calls) => calls[i + 1].ev = "http"
  /\ cpc = "sleep" =>
       /\ calls # <<>>
       /\ calls[Len(calls)].ev = "http"
       /\ Transient(calls[Len(calls)].outcome)
  /\ (cpc = "returned" /\ calls = <<>>) =>
       (call.fn = "GetImages" /\ call.todo = {} /\ callErr # "")
  /\ (cpc = "returned" /\ calls # <<>>) =>
       LET last == calls[Len(calls)]
       IN /\ last.ev = "http"
          /\ callErr = "" <=> (/\ ~last.outcome.transport
                               /\ last.outcome.status = 200
                               /\ last.outcome.body = "ok")
          /\ callErr # "" => (~Transient(last.outcome) \/ last.attempt = 3)

\* a call has returned an error after a 429, a 503 and a transport failure,
\* having slept 2 s and then 4 s
C23_Witness ==
  /\ cpc = "returned"
  /\ callErr # ""
  /\ Len(calls) = 5
  /\ calls[1].outcome.status = 429
  /\ calls[2].seconds = 2
  /\ calls[3].outcome.status = 503
  /\ calls[4].seconds = 4
  /\ calls[5].outcome.transport

\* the render calls made for the scale at position si of the call's scale list
CallsAtScale(si) ==
  {i \in DOMAIN calls : calls[i].api = "GetImages" /\ calls[i].scale = call.scales[si]}

\* C24: every GetImages call of ExportImages carries between 1 and 100 node
\* IDs; the calls are made scale by scale; the batches of one scale are
\* pairwise disjoint and, once the scale is finished, cover the node set; a
\* call in which no GetImages fails makes |scales| * ceil(n / 100) of them
C24_BatchesPartitionPerScale ==
  call.fn = "ExportImages" =>
    LET n == Cardinality(DOMAIN call.nodes)
    IN /\ \A i \in DOMAIN calls :
            /\ Cardinality(calls[i].ids) \in 1..maxNodesPerRequest
            /\ calls[i].ids \subseteq DOMAIN call.nodes
            /\ \E si \in DOMAIN call.scales : i \in CallsAtScale(si)
       /\ \A si \in DOMAIN call.scales :
            /\ \A i, j \in CallsAtScale(si) :
                 i # j => calls[i].ids \cap calls[j].ids = {}
            /\ \A i \in CallsAtScale(si) : \A j \in DOMAIN calls :
                 (j < i) => \E sj \in 1..si : j \in CallsAtScale(sj)
            /\ (callErr = "" /\ (si < call.si \/ cpc = "ret"))
                 => UNION {calls[i].ids : i \in CallsAtScale(si)} = DOMAIN call.nodes
       /\ (cpc = "ret" /\ callErr = "")
            => Len(calls) = Len(call.scales)
                              * ((n + maxNodesPerRequest - 1) \div maxNodesPerRequest)

\* a call for more than 200 nodes at three scales has returned without an
\* error after nine GetImages calls
C24_Witness ==
  /\ cpc = "ret"
  /\ callErr = ""
  /\ call.fn = "ExportImages"
  /\ Cardinality(DOMAIN call.nodes) > 2 * maxNodesPerRequest
  /\ call.scales = <<1, 2, 3>>
  /\ Len(calls) = 9

\* the nodes of a tree in depth-first pre-order
RECURSIVE PreOrder(_)
PreOrder(node) ==
  <<node>> \o Concat([i \in DOMAIN node.Children |-> PreOrder(node.Children[i])])

\* the refs of the node's IMAGE fills that are not empty, in the order of the fills
ImageRefs(node) ==
  LET usable == SelectSeq(node.Fills,
                          LAMBDA f : f.Type = "IMAGE" /\ Len(f.ImageRef) > 0)
  IN [i \in DOMAIN usable |-> usable[i].ImageRef]

\* C26: CollectImageFillNodes returns, in depth-first pre-order, one entry for
\* each node of the tree that has an IMAGE fill with a non-empty ref, with the
\* ref of the first such fill, and nothing else
C26_OneEntryPerImageNode ==
  (input.fn = "CollectImageFillNodes" /\ result # <<>>) =>
    LET carriers == SelectSeq(PreOrder(input.root), LAMBDA n : ImageRefs(n) # <<>>)
        out == result[1]
    IN /\ Len(out) = Len(carriers)
       /\ \A i \in DOMAIN out :
            /\ out[i].NodeID = carriers[i].ID
            /\ out[i].NodeName = carriers[i].Name
            /\ out[i].ImageRef = ImageRefs(carriers[i])[1]

\* the function has returned for a tree whose root has two IMAGE fills, whose
\* middle node has only an IMAGE fill with an empty ref, and whose leaf below
\* it has an IMAGE fill after a SOLID one
C26_Witness ==
  /\ input.fn = "CollectImageFillNodes"
  /\ result # <<>>
  /\ Len(ImageRefs(input.root)) = 2
  /\ input.root.Children[1].Fills = <<Paint("IMAGE", <<>>)>>
  /\ Len(input.root.Children[1].Children[1].Fills) = 2
  /\ Len(result[1]) = 3

\* C27: CollectExportableNodes returns the map from the ID to the name of every
\* node of the tree, the root included, that has at least one export setting
C27_ExportableNodesAtAnyDepth ==
  (input.fn = "CollectExportableNodes" /\ result # <<>>) =>
    LET flagged == SelectSeq(PreOrder(input.root), LAMBDA n : n.ExportSettings >= 1)
        out == result[1]
    IN /\ DOMAIN out = {flagged[i].ID : i \in DOMAIN flagged}
       /\ \A i \in DOMAIN flagged : out[flagged[i].ID] = flagged[i].Name

\* the function has returned for a tree whose root and leaf have export
\* settings and whose middle node has none
C27_Witness ==
  /\ input.fn = "CollectExportableNodes"
  /\ result # <<>>
  /\ input.root.ExportSettings = 1
  /\ input.root.Children[1].ExportSettings = 0
  /\ input.root.Children[1].Children[1].ExportSettings = 1
  /\ Cardinality(DOMAIN result[1]) = 3

\* the last element of the path of a URL, the query and the fragment cut off
LastElement(rawURL) ==
  LET path == Before(Before(rawURL, "#"), "?")
  IN SubSeq(path, LastIndex(path, "/") + 1, Len(path))

\* C28: detectExtensionFromURL returns a non-empty extension without a leading
\* dot: "png" when the URL is empty, does not parse, or its path has no
\* extension or ends in a bare dot, and else what follows the last dot of the
\* path's last element
C28_ExtensionNeverEmpty ==
  (input.fn = "detectExtensionFromURL" /\ result # <<>>) =>
    LET out == result[1]
        last == LastElement(input.rawURL)
        dot == LastIndex(last, ".")
    IN /\ out # <<>>
       /\ out[1] # "."
       /\ (input.rawURL = <<>> \/ ~URLParse(input.rawURL).ok
             \/ dot = 0 \/ dot = Len(last)) => out = png
       /\ (URLParse(input.rawURL).ok /\ dot > 0 /\ dot < Len(last)
             /\ URLParse(input.rawURL).Path = Before(Before(input.rawURL, "#"), "?"))
            => out = SubSeq(last, dot + 1, Len(last))

\* the part of a file name before its scale suffix and format
NamePart(fileName, format) ==
  LET stem == SubSeq(fileName, 1, Len(fileName) - Len(format) - 1)
  IN Before(stem, "@")

SuffixPart(fileName, format) ==
  LET stem == SubSeq(fileName, 1, Len(fileName) - Len(format) - 1)
  IN SubSeq(stem, Len(NamePart(fileName, format)) + 1, Len(stem))

\* C29: buildFileName returns {name}{suffix}.{format}, where the suffix is
\* @{scale}x if scale > 1 and the format is neither svg nor pdf, and empty
\* otherwise; a second call with the same arguments returns the same name
C29_ScaleSuffixOnlyForRasterAboveOne ==
  (input.fn = "buildFileName" /\ result # <<>>) =>
    LET out == result[1]
        raster == input.format \notin {svg, pdf}
    IN /\ HasSuffix(out, <<".">> \o input.format)
       /\ SuffixPart(out, input.format) =
            (IF input.scale > 1 /\ raster
             THEN <<"@">> \o FmtInt(input.scale) \o <<"x">> ELSE <<>>)
       /\ out = NamePart(out, input.format) \o SuffixPart(out, input.format)
                  \o <<".">> \o input.format
       /\ "@" \notin Elems(NamePart(out, input.format))
       /\ \A i \in DOMAIN result : result[i] = out

\* the function has returned twice for an SVG at scale 2, and twice for a PNG
\* at scale 3
C29_Witness ==
  /\ input.fn = "buildFileName"
  /\ Len(result) = 2
  /\ \/ input.format = svg /\ input.scale = 2
     \/ input.format = png /\ input.scale = 3 /\ "@" \in Elems(result[1])

KebabAlphabet == Elems(Lower) \cup Elems(Digits) \cup {"-"}

\* the name (or, for an empty name, the ID) with upper-case letters lowered,
\* spaces and underscores turned into hyphens, and the rest dropped
Normalized(nodeName, nodeID) ==
  LET src == IF Len(nodeName) = 0 THEN nodeID ELSE nodeName
      mapped == [i \in DOMAIN src |->
                   IF src[i] \in {" ", "_"} THEN "-"
                   ELSE IF \E k \in DOMAIN Upper : Upper[k] = src[i]
                   THEN Lower[CHOOSE k \in DOMAIN Upper : Upper[k] = src[i]]
                   ELSE src[i]]
  IN SelectSeq(mapped, LAMBDA c : c \in KebabAlphabet)

\* C30: the name part of what buildFileName returns is not empty and holds
\* only characters of [a-z0-9-]: it is the normalized node name (the normalized
\* node ID for an empty name), or "asset" when that is empty
C30_NamePartIsKebabOrAsset ==
  (input.fn = "buildFileName" /\ result # <<>>) =>
    LET part == NamePart(result[1], input.format)
        norm == Normalized(input.nodeName, input.nodeID)
    IN /\ part # <<>>
       /\ Elems(part) \subseteq KebabAlphabet
       /\ part = (IF norm = <<>> THEN <<"a","s","s","e","t">> ELSE norm)

\* the function has returned "asset" for a name of symbols only, and the
\* normalized ID for an empty name
C30_Witness ==
  /\ input.fn = "buildFileName"
  /\ result # <<>>
  /\ \/ /\ input.nodeName = <<"#","!">>
        /\ NamePart(result[1], input.format) = <<"a","s","s","e","t">>
     \/ /\ input.nodeName = <<>>
        /\ NamePart(result[1], input.format) = <<"1","2">>

\* position of the first occurrence of id in the list
FirstAt(list, id) == CHOOSE i \in DOMAIN list : list[i] = id /\ \A j \in 1..(i - 1) : list[j] # id

\* C31: deduplicateNodeIDs returns the distinct IDs of its input in the order
\* of their first occurrence: no ID twice, the same set of IDs, a subsequence
\* of the input; applied to its own output it returns that output
C31_DistinctIDsInFirstOccurrenceOrder ==
  (input.fn = "deduplicateNodeIDs" /\ result # <<>>) =>
    LET in == input.nodeIDs
        out == result[1]
    IN /\ \A i, j \in DOMAIN out : out[i] = out[j] => i = j
       /\ Elems(out) = Elems(in)
       /\ \A i, j \in DOMAIN out :
            i < j => FirstAt(in, out[i]) < FirstAt(in, out[j])
       /\ Len(result) = 2 => result[2] = out

\* both calls have returned for a list of four IDs that holds one ID three
\* times, not in a row
C31_Witness ==
  /\ input.fn = "deduplicateNodeIDs"
  /\ Len(result) = 2
  /\ Len(input.nodeIDs) = 4
  /\ input.nodeIDs[1] = input.nodeIDs[3]
  /\ input.nodeIDs[3] = input.nodeIDs[4]
  /\ input.nodeIDs[2] # input.nodeIDs[1]
  /\ Len(result[1]) = 2

\* the file name buildFileName proposes for an asset of an ExportImages call
CandidateOf(a) == buildFileName(a.NodeName, a.NodeID, a.Format, a.Scale)

\* {base}-{k}{ext}
Rewritten(fileName, k) ==
  TrimSuffix(fileName, Ext(fileName)) \o <<"-">> \o FmtInt(k) \o Ext(fileName)

\* C32: within one ExportImages or ExportImageFills call the registry hands
\* out pairwise distinct file names, also for three nodes with the same
\* candidate name; the k-th occurrence of a name is rewritten to {base}-{k}{ext}
C32_RegistryNamesPairwiseDistinct ==
  /\ \A i, j \in DOMAIN result.Assets :
       result.Assets[i].FileName = result.Assets[j].FileName => i = j
  /\ call.fn = "ExportImages" =>
       \A i \in DOMAIN result.Assets :
         LET a == result.Assets[i]
             same == {id \in DOMAIN call.nodes :
                        buildFileName(call.nodes[id], id, a.Format, a.Scale)
                          = CandidateOf(a)}
         IN a.FileName \in {CandidateOf(a)}
                              \cup {Rewritten(CandidateOf(a), k) :
                                      k \in 2..Cardinality(same)}

\* an asset reconciliation has no reason to touch
Untouchable(a) ==
  \/ a.IsScreenshot
  \/ /\ a.NodeID \notin DOMAIN screenshotNodes
     /\ a.NodeName \notin ScreenshotNames

\* C33: the reconciliation step keeps every screenshot asset and every regular
\* asset that matches no screenshot-set node by ID or by name: they stay in
\* the manifest with the same fields and in the same order, and their files
\* are not deleted
C33_ReconcileKeepsTheRest ==
  [][(pc = "reconcile" /\ pc' = "done") =>
       /\ SelectSeq(ExportedAssets', Untouchable) = SelectSeq(ExportedAssets, Untouchable)
       /\ \A i \in DOMAIN ExportedAssets :
            (Untouchable(ExportedAssets[i]) /\ ExportedAssets[i].FileName \in DOMAIN files)
              => /\ ExportedAssets[i].FileName \in DOMAIN files'
                 /\ files'[ExportedAssets[i].FileName] = files[ExportedAssets[i].FileName]]_vars

\* the bulk response of the running ExportImageFills call has no URL for the fill
RefUnresolved(fill) ==
  \/ fill.ImageRef \notin DOMAIN call.images
  \/ call.images[fill.ImageRef] = <<>>

\* how many entries of a list satisfy a test
CountOf(list, Test(_)) == Cardinality({i \in DOMAIN list : Test(list[i])})

\* ExportImageFills has returned its result
FillsReturned == call.fn = "ExportImageFills" /\ cpc = "ret" /\ callErr = ""

\* C34: when ExportImageFills returns, every input fill node is in exactly one
\* of UnresolvedNodes (no URL for its ref), Assets (downloaded) or Errors
\* (download failed); a node whose download failed is not unresolved, and the
\* render fallback that follows asks only for nodes that were unresolved
C34_FillsArePartitioned ==
  /\ [](FillsReturned =>
         /\ result.UnresolvedNodes = SelectSeq(call.fills, RefUnresolved)
         /\ Len(result.UnresolvedNodes) + Len(result.Assets) + Len(result.Errors)
              = Len(call.fills)
         /\ \A i \in DOMAIN call.fills :
              LET n == call.fills[i]
                  sameName(x) == x.NodeName = n.NodeName
                  named(e) == e.node = n.NodeName
              IN CountOf(call.fills, sameName)
                   = CountOf(result.UnresolvedNodes, sameName)
                     + CountOf(result.Assets, sameName)
                     + CountOf(result.Errors, named)
         /\ \A i \in DOMAIN result.Assets : \E j \in DOMAIN call.fills :
              /\ call.fills[j].NodeID = result.Assets[i].NodeID
              /\ ~RefUnresolved(call.fills[j])
         /\ \A i \in DOMAIN result.Errors : \E j \in DOMAIN call.fills :
              /\ call.fills[j].NodeName = result.Errors[i].node
              /\ ~RefUnresolved(call.fills[j])
              /\ \A u \in DOMAIN result.UnresolvedNodes :
                   result.UnresolvedNodes[u] # call.fills[j])
  /\ [][(FillsReturned /\ pc = "fallback" /\ pc' = "fallback_call") =>
          \A id \in DOMAIN call'.nodes : \E j \in DOMAIN call.fills :
            /\ call.fills[j].NodeID = id
            /\ RefUnresolved(call.fills[j])]_vars

\* three fills came back as one unresolved, one downloaded and one failed
C34_Witness ==
  /\ FillsReturned
  /\ Len(call.fills) = 3
  /\ Len(result.UnresolvedNodes) = 1
  /\ Len(result.Assets) = 1
  /\ Len(result.Errors) = 1

\* the render fallback runs for the unresolved node of a call in which
\* another download failed
C34_WitnessFallback ==
  /\ call.phase = "RenderFallback"
  /\ pc = "fallback_call"
  /\ Cardinality(DOMAIN call.nodes) = 1
  /\ \E i \in DOMAIN log : log[i].level = "warn" /\ log[i].what.kind = "download"

\* the IDs of the screenshot set
ScreenshotIDs == DOMAIN screenshotNodes

\* C35: no fill of a screenshot-set node is handed to ExportImageFills or
\* downloaded, and no render request of the fallback names a screenshot-set
\* node
C35_ScreenshotSetIsLeftOut ==
  /\ call.fn = "ExportImageFills" =>
       /\ \A i \in DOMAIN call.fills : call.fills[i].NodeID \notin ScreenshotIDs
       /\ \A k \in DOMAIN gor : gor[k].nID \notin ScreenshotIDs
       /\ \A i \in DOMAIN result.Assets : result.Assets[i].NodeID \notin ScreenshotIDs
  /\ call.phase = "RenderFallback" => DOMAIN call.nodes \cap ScreenshotIDs = {}
  /\ \A i \in DOMAIN calls :
       calls[i].phase = "RenderFallback" => calls[i].ids \cap ScreenshotIDs = {}

\* a tree has an image fill on a screenshot-set node, and the fill below it
\* was downloaded
C35_Witness ==
  /\ call.fn = "ExportImageFills"
  /\ cpc = "ret"
  /\ \E r \in DOMAIN Roots(input) :
       \E i \in DOMAIN CollectImageFillNodes(Roots(input)[r]) :
         CollectImageFillNodes(Roots(input)[r])[i].NodeID \in ScreenshotIDs
  /\ Len(result.Assets) = 1
  /\ result.Assets[1].NodeID \notin ScreenshotIDs

\* the running ExportImages call has returned the GetImages error and the
\* pipeline has not yet looked at it
GetImagesFailed ==
  /\ call.fn = "ExportImages"
  /\ cpc = "ret"
  /\ callErr = "get_images"
  /\ pc \in {"screenshot", "phase1_call", "fallback_call"}

\* C36: a failing GetImages call makes ExportImages return a nil result with
\* the error, whatever the earlier batches and scales of the call produced;
\* the step deletes no file, and the caller adds nothing to the manifest
C36_FailedBatchDropsTheResult ==
  /\ [](GetImagesFailed => result = EmptyResult)
  /\ [][(callErr = "" /\ callErr' = "get_images") =>
          /\ result' = EmptyResult
          /\ cpc' = "ret"
          /\ files' = files]_vars
  /\ [][(GetImagesFailed /\ pc' # pc) =>
          /\ ExportedAssets' = ExportedAssets
          /\ files' = files]_vars

\* the call for the second scale failed after the first scale's download: the
\* file is there and the result is empty
C36_Witness ==
  /\ GetImagesFailed
  /\ call.si = 2
  /\ result.Assets = <<>>
  /\ \E k \in DOMAIN gor :
       /\ gor[k].dl = "ok"
       /\ gor[k].pc = "done"
       /\ gor[k].fileName \in DOMAIN files

\* the manifest entry the running rename step appends
Appended == ExportedAssets'[Len(ExportedAssets')]

\* C37: every step of the rename loop appends exactly one manifest entry for
\* the screenshot asset at hand, marked IsScreenshot; its file name is the
\* well-known name when the file was renamed and the generated name when the
\* rename failed; after the loop there is one entry per screenshot asset
C37_OneEntryPerScreenshotAsset ==
  /\ [][pc = "rename" =>
          LET asset == result.Assets[idx]
              wellKnown == screenshotName(input.opts.ImageFormat)
          IN /\ Len(ExportedAssets') = Len(ExportedAssets) + 1
             /\ SubSeq(ExportedAssets', 1, Len(ExportedAssets)) = ExportedAssets
             /\ Appended.IsScreenshot
             /\ Appended.NodeID = asset.NodeID
             /\ Appended.NodeName = asset.NodeName
             /\ Appended.Format = asset.Format
             /\ Appended.Scale = asset.Scale
             /\ files' # files =>
                  /\ Appended.FileName = wellKnown
                  /\ wellKnown \in DOMAIN files'
                  /\ files'[wellKnown] = files[asset.FileName]
             /\ files' = files => Appended.FileName = asset.FileName]_vars
  /\ []((pc = "phase1" /\ call.phase = "Screenshot" /\ callErr = "")
          => /\ Len(ExportedAssets) = Len(result.Assets)
             /\ \A i \in DOMAIN ExportedAssets :
                  /\ ExportedAssets[i].IsScreenshot
                  /\ ExportedAssets[i].NodeID = result.Assets[i].NodeID)

\* of two screenshots one was renamed and the other, whose file is still
\* there under its generated name, was not
C37_Witness ==
  /\ pc = "phase1"
  /\ call.phase = "Screenshot"
  /\ Len(ExportedAssets) = 2
  /\ \E i, j \in DOMAIN ExportedAssets :
       /\ ExportedAssets[i].FileName = screenshotName(input.opts.ImageFormat)
       /\ ExportedAssets[j].FileName # screenshotName(input.opts.ImageFormat)
       /\ ExportedAssets[j].FileName \in DOMAIN files
       /\ ExportedAssets[j].IsScreenshot

\* an ExportImages or ExportImageFills call is running
InCall == cpc \notin {"idle", "ret"}

\* the goroutines of the call that are at a position
At(p) == Cardinality({k \in DOMAIN gor : gor[k].pc = p})

\* what the goroutines of the call still have to do: each position counts
\* with the steps from it to the end
GoroutinesRank ==
  7 * At("sem") + 6 * At("lockName") + 5 * At("check") + 4 * At("register")
    + 3 * At("dl") + 2 * (At("lockAsset") + At("lockErr"))
    + At("asset") + At("err")

\* what the calling goroutine still has to do, counting for every node it has
\* not spawned yet the steps of the goroutine to come
MainRank ==
  IF ~InCall THEN 0
  ELSE IF call.fn = "ExportImageFills"
  THEN 1 + 9 * (Len(call.fills) + 1 - call.fi)
  ELSE LET scalesLeft == IF call.si < Len(call.scales)
                         THEN Len(call.scales) - call.si ELSE 0
       IN 1 + (IF cpc \in {"range", "range_cs"} THEN 1 ELSE 0)
            + (IF cpc = "range_cs" THEN 1 ELSE 0)
            + 9 * Cardinality(DOMAIN pending)
            + 11 * Cardinality(call.todo)
            + scalesLeft * (11 * Cardinality(DOMAIN call.nodes) + 2)

Rank == GoroutinesRank + MainRank

\* the calling goroutine or one of the download goroutines can take a step;
\* for the spawn of the next fill its guard is written out
CanStep ==
  \/ ENABLED ExportImagesMain
  \/ ENABLED ImgGoroutineOk
  \/ ENABLED FillGoroutineOk
  \/ ENABLED FillUnresolved
  \/ ENABLED FillsWait
  \/ /\ call.fn = "ExportImageFills"
     /\ cpc = "fills"
     /\ call.fi <= Len(call.fills)

====
